---- MODULE Spec2Model ----
(***************************************************************************)
(* Model of the stimulus generators and of the session engine of           *)
(* src/src/App.tsx (Project Omega).                                        *)
(*                                                                         *)
(* Randomness (Math.random, getRandomItem, shuffleArray) is modelled as    *)
(* nondeterministic choice: an operator that models random code returns    *)
(* the SET of values the code can produce.                                 *)
(***************************************************************************)
EXTENDS Integers, Sequences, FiniteSets, TLC

\* ------------------------------------------------------------------ bounds
\* number of nonsense syllables the random code allocation draws from
MaxCodes == 4

\* largest N-back level the settings dialog saves
MaxN == 2

\* number of permutations a shuffle of the bag draws from
MaxShuffles == 2

\* number of values the random part of a block's run length draws from
MaxVariances == 1

\* turns generated in one run, over all its sessions
MaxTurns == 4

\* block switches made in one run of the scheduler on its own
MaxSwitches == 19

\* number of icons the random icon choice draws from
MaxIcons == 5

\* --------------------------------------------------------------- constants
Null == "null"

NONSENSE_SYLLABLES ==
  <<"ZID", "LUM", "VEX", "KOR", "JAX", "QIN", "YOM", "TEP", "WEX", "BUP", "SAF", "GEX">>

\* the ten ICONS, by name
ICONS ==
  <<"diamond", "star", "up", "down", "dot", "box", "bolt", "snow", "infinity", "section">>

allTypes ==
  <<"FLUX_FEATURE", "FLUX_COMPARISON", "FLUX_OPPOSITION", "FLUX_HIERARCHY", "FLUX_CAUSAL",
    "FLUX_SPATIAL", "FLUX_DEICTIC", "FLUX_CONDITIONAL", "FLUX_ANALOGY">>

CausalTrials == 50

SpatialAttempts == 200

\* ----------------------------------------------------------------- helpers
Range(s) == {s[i] : i \in DOMAIN s}

Includes(arr, x) == \E i \in DOMAIN arr : arr[i] = x

\* arr.filter(r => r !== x)
FilterNot(arr, x) == SelectSeq(arr, LAMBDA r : r # x)

\* getRandomItem: any element of the array
getRandomItem(arr) == Range(arr)

\* the syllables the allocation draws from (bounded by MaxCodes)
Syllables == SubSeq(NONSENSE_SYLLABLES, 1, MaxCodes)

\* generateCode(used): redraws until the code is not in used
generateCode(used) == {c \in getRandomItem(Syllables) : ~Includes(used, c)}

\* k successive allocations c1 = generateCode([]), c2 = generateCode([c1]), ...
RECURSIVE CodeSeqs(_)
CodeSeqs(k) ==
  IF k = 0 THEN {<< >>}
  ELSE UNION {{Append(s, c) : c \in generateCode(s)} : s \in CodeSeqs(k - 1)}

\* an object literal { [k1]: v1, [k2]: v2, ... }: a later entry overwrites an
\* earlier one with the same key; shuffleEntries only reorders the entries
shuffleEntries(entries) ==
  [k \in {entries[i][1] : i \in DOMAIN entries} |->
     LET last == CHOOSE i \in DOMAIN entries :
                   /\ entries[i][1] = k
                   /\ \A j \in DOMAIN entries : entries[j][1] = k => j <= i
     IN entries[last][2]]

\* a bounded random search of limit trials (a for/while loop that stops at the
\* first trial that hits the target): the loop ends with any hitting trial, or,
\* when every one of the limit trials can miss, with the fallback
BoundedSearch(limit, hits, canMiss, fallback) ==
  IF limit <= 0 THEN {fallback}
  ELSE hits \cup (IF canMiss THEN {fallback} ELSE {})

\* ------------------------------------------------------- result selection
\* ChooseResult without the forced-match branch
ChooseResultNeverForced(relations, prevResult, forceMatch) ==
  IF prevResult # Null
  THEN getRandomItem(FilterNot(relations, prevResult))
  ELSE getRandomItem(relations)

\* ChooseResult whose non-match branch does not filter prevResult out
ChooseResultNoFilter(relations, prevResult, forceMatch) ==
  IF forceMatch /\ prevResult # Null /\ Includes(relations, prevResult)
  THEN {prevResult}
  ELSE getRandomItem(relations)

\* ChooseResult without the relations.includes(prevResult) test
ChooseResultNoIncludes(relations, prevResult, forceMatch) ==
  IF forceMatch /\ prevResult # Null
  THEN {prevResult}
  ELSE IF ~forceMatch /\ prevResult # Null
       THEN getRandomItem(FilterNot(relations, prevResult))
       ELSE getRandomItem(relations)

\* let result = getRandomItem(relations);
\* if (forceMatch && prevResult && relations.includes(prevResult)) result = prevResult;
\* else if (!forceMatch && prevResult) result = getRandomItem(relations.filter(r => r !== prevResult));
ChooseResult(relations, prevResult, forceMatch) ==
  IF forceMatch /\ prevResult # Null /\ Includes(relations, prevResult)
  THEN {prevResult}
  ELSE IF ~forceMatch /\ prevResult # Null
       THEN getRandomItem(FilterNot(relations, prevResult))
       ELSE getRandomItem(relations)

\* the Causal variant keeps the first draw when the filter leaves nothing
ChooseResultCausal(currentRelations, prevResult, forceMatch) ==
  IF forceMatch /\ prevResult # Null /\ Includes(currentRelations, prevResult)
  THEN {prevResult}
  ELSE IF ~forceMatch /\ prevResult # Null
       THEN LET validOptions == FilterNot(currentRelations, prevResult)
            IN IF Len(validOptions) > 0 THEN getRandomItem(validOptions)
               ELSE getRandomItem(currentRelations)
       ELSE getRandomItem(currentRelations)

relationsFeature == <<"MATCH_COLOR", "MATCH_SHAPE", "EXACT", "NONE">>
relationsComparison == <<"GREATER", "LESSER">>
relationsOpposition == <<"SAME", "OPPOSITE", "DIFFERENT">>
relationsHierarchy == <<"HIGHER", "LOWER", "SAME">>
relationsSimple == <<"TRIGGER", "BLOCK">>
relationsViral == <<"RED", "BLUE">>
relationsRotation == <<"NO_CHANGE", "90_RIGHT", "90_LEFT", "180_FLIP">>
relationsQuadrant == <<"NORTH_EAST", "NORTH_WEST", "SOUTH_EAST", "SOUTH_WEST">>
relationsDeictic == <<"LEFT", "RIGHT", "FRONT", "BACK">>
relationsConditional == <<"RED", "BLUE">>
relationsAnalogy == <<"ANALOGOUS", "NON_ANALOGOUS">>

\* the result a generator returns: every generator chooses it in its first
\* lines, before it builds the stimulus around it
GeneratedResult(type, prevResult, forceMatch, tier) ==
  CASE type = "FLUX_COMPARISON" -> ChooseResult(relationsComparison, prevResult, forceMatch)
    [] type = "FLUX_OPPOSITION" -> ChooseResult(relationsOpposition, prevResult, forceMatch)
    [] type = "FLUX_HIERARCHY" -> ChooseResult(relationsHierarchy, prevResult, forceMatch)
    [] type = "FLUX_CAUSAL" ->
         ChooseResultCausal(IF tier >= 3 THEN relationsViral ELSE relationsSimple,
                            prevResult, forceMatch)
    [] type = "FLUX_SPATIAL" ->
         ChooseResult(IF tier = 3 THEN relationsRotation ELSE relationsQuadrant,
                      prevResult, forceMatch)
    [] type = "FLUX_DEICTIC" -> ChooseResult(relationsDeictic, prevResult, forceMatch)
    [] type = "FLUX_CONDITIONAL" -> ChooseResult(relationsConditional, prevResult, forceMatch)
    [] type = "FLUX_ANALOGY" -> ChooseResult(relationsAnalogy, prevResult, forceMatch)
    [] OTHER -> ChooseResult(relationsFeature, prevResult, forceMatch)

\* ------------------------------------------------------------- generators
\* 1. FLUX FEATURE
generateFluxFeature(prevResult, forceMatch, tier) ==
  {[type |-> "FLUX_FEATURE", tier |-> tier, result |-> r]
     : r \in GeneratedResult("FLUX_FEATURE", prevResult, forceMatch, tier)}

\* 2. FLUX COMPARISON
generateFluxComparison(prevResult, forceMatch, tier) ==
  {[type |-> "FLUX_COMPARISON", tier |-> tier, result |-> r]
     : r \in GeneratedResult("FLUX_COMPARISON", prevResult, forceMatch, tier)}

\* 3. FLUX OPPOSITION
generateFluxOpposition(prevResult, forceMatch, tier) ==
  {[type |-> "FLUX_OPPOSITION", tier |-> tier, result |-> r]
     : r \in GeneratedResult("FLUX_OPPOSITION", prevResult, forceMatch, tier)}

\* 4. FLUX HIERARCHY
generateFluxHierarchy(prevResult, forceMatch, tier) ==
  {[type |-> "FLUX_HIERARCHY", tier |-> tier, result |-> r]
     : r \in GeneratedResult("FLUX_HIERARCHY", prevResult, forceMatch, tier)}

\* 5. FLUX CAUSAL
ColorTriples == {<<a, b, c>> : a \in {"RED", "BLUE"}, b \in {"RED", "BLUE"}, c \in {"RED", "BLUE"}}

\* tier 3: a successful infection flips the target colour
applyVirus(op, s, d, matchOps) ==
  LET success == IF Includes(matchOps, op) THEN s = d ELSE s # d
  IN IF success THEN (IF d = "RED" THEN "BLUE" ELSE "RED") ELSE d

\* tier 2: does the signal of colour c pass the gate op
checkPass(op, c, c1, c2, c3) ==
  IF op = c3 THEN TRUE
  ELSE IF op = c1 /\ c = "RED" THEN FALSE
  ELSE IF op = c2 /\ c = "BLUE" THEN FALSE
  ELSE TRUE

CausalViralOutcome(t1, t2, colors, matchOps) ==
  LET n2 == applyVirus(t1, colors[1], colors[2], matchOps)
  IN applyVirus(t2, n2, colors[3], matchOps)

CausalGateOutcome(t1, t2, colors, c1, c2, c3) ==
  LET pass1 == checkPass(t1, colors[1], c1, c2, c3)
      pass2 == IF pass1 THEN checkPass(t2, colors[2], c1, c2, c3) ELSE FALSE
  IN IF pass2 THEN "TRIGGER" ELSE "BLOCK"

\* if(!found) { op1=c1; op2=c1; }
CausalViralFallback(c) == [op1 |-> c[1], op2 |-> c[1], found |-> FALSE]

\* if(!found) { op1=c3; op2=c3; }
CausalGateFallback(c) == [op1 |-> c[3], op2 |-> c[3], found |-> FALSE]

CausalViralSearch(c, colors, result) ==
  LET allOps == <<c[1], c[2], c[3], c[4]>>
      matchOps == <<c[1], c[2]>>
      trials == getRandomItem(allOps) \X getRandomItem(allOps)
      hits == {[op1 |-> t[1], op2 |-> t[2], found |-> TRUE]
                 : t \in {u \in trials : CausalViralOutcome(u[1], u[2], colors, matchOps) = result}}
      canMiss == \E u \in trials : CausalViralOutcome(u[1], u[2], colors, matchOps) # result
  IN BoundedSearch(CausalTrials, hits, canMiss, CausalViralFallback(c))

CausalGateSearch(c, colors, result) ==
  LET allOps == <<c[1], c[2], c[3]>>
      trials == getRandomItem(allOps) \X getRandomItem(allOps)
      hits == {[op1 |-> t[1], op2 |-> t[2], found |-> TRUE]
                 : t \in {u \in trials : CausalGateOutcome(u[1], u[2], colors, c[1], c[2], c[3]) = result}}
      canMiss == \E u \in trials : CausalGateOutcome(u[1], u[2], colors, c[1], c[2], c[3]) # result
  IN BoundedSearch(CausalTrials, hits, canMiss, CausalGateFallback(c))

\* tier 1: link1 is random, link2 = result === 'TRIGGER' ? link1 : -link1
CausalSimpleOps(c, result) ==
  {LET link2 == IF result = "TRIGGER" THEN link1 ELSE -link1
   IN [op1 |-> IF link1 = 1 THEN c[1] ELSE c[2],
       op2 |-> IF link2 = 1 THEN c[1] ELSE c[2],
       found |-> TRUE] : link1 \in {1, -1}}

\* the object literal of the Causal dictionary
CausalEntries(c, tier) ==
  IF tier >= 3
  THEN <<<<c[1], "INFECT_MATCH">>, <<c[2], "INFECT_MATCH">>,
         <<c[3], "INFECT_DIFF">>, <<c[4], "INFECT_DIFF">>>>
  ELSE IF tier = 2
  THEN <<<<c[1], "BLOCK_RED">>, <<c[2], "BLOCK_BLUE">>, <<c[3], "PASS">>>>
  ELSE <<<<c[1], "ACTIVATE">>, <<c[2], "INHIBIT">>>>

CausalDictionary(c, tier) == shuffleEntries(CausalEntries(c, tier))

CausalOps(c, colors, result, tier) ==
  IF tier >= 3 THEN CausalViralSearch(c, colors, result)
  ELSE IF tier = 2 THEN CausalGateSearch(c, colors, result)
  ELSE CausalSimpleOps(c, result)

generateFluxCausal(prevResult, forceMatch, tier) ==
  LET nCodes == IF tier >= 3 THEN 4 ELSE IF tier = 2 THEN 3 ELSE 2
  IN UNION {UNION {UNION {
       {[type |-> "FLUX_CAUSAL", tier |-> tier, result |-> r,
         dictionary |-> CausalDictionary(c, tier),
         visuals |-> [nodeColors |-> colors, ops |-> <<o.op1, o.op2>>],
         found |-> o.found] : o \in CausalOps(c, colors, r, tier)}
       : c \in CodeSeqs(nCodes)}
       : colors \in ColorTriples}
       : r \in GeneratedResult("FLUX_CAUSAL", prevResult, forceMatch, tier)}

\* 6. FLUX SPATIAL
\* one move of the turtle: pos = [x, y, heading], heading 0=N, 1=E, 2=S, 3=W
TurtleStep(pos, move, codeFwd, codeR, codeL, codeU) ==
  IF move = codeR THEN [pos EXCEPT !.heading = (pos.heading + 1) % 4]
  ELSE IF move = codeL THEN [pos EXCEPT !.heading = (pos.heading + 3) % 4]
  ELSE IF move = codeU THEN [pos EXCEPT !.heading = (pos.heading + 2) % 4]
  ELSE IF move = codeFwd
       THEN IF pos.heading = 0 THEN [pos EXCEPT !.y = pos.y + 1]
            ELSE IF pos.heading = 1 THEN [pos EXCEPT !.x = pos.x + 1]
            ELSE IF pos.heading = 2 THEN [pos EXCEPT !.y = pos.y - 1]
            ELSE IF pos.heading = 3 THEN [pos EXCEPT !.x = pos.x - 1]
            ELSE pos
       ELSE pos

RECURSIVE TurtleRun(_, _, _, _, _, _)
TurtleRun(seq, k, codeFwd, codeR, codeL, codeU) ==
  IF k = 0 THEN [x |-> 0, y |-> 0, heading |-> 0]
  ELSE TurtleStep(TurtleRun(seq, k - 1, codeFwd, codeR, codeL, codeU), seq[k],
                  codeFwd, codeR, codeL, codeU)

\* the outcome the search compares with the target ('' when on an axis)
SpatialOutcome(pos, tier) ==
  IF tier = 2
  THEN IF pos.x > 0 /\ pos.y > 0 THEN "NORTH_EAST"
       ELSE IF pos.x < 0 /\ pos.y > 0 THEN "NORTH_WEST"
       ELSE IF pos.x > 0 /\ pos.y < 0 THEN "SOUTH_EAST"
       ELSE IF pos.x < 0 /\ pos.y < 0 THEN "SOUTH_WEST"
       ELSE ""
  ELSE IF pos.heading = 0 THEN "NO_CHANGE"
       ELSE IF pos.heading = 1 THEN "90_RIGHT"
       ELSE IF pos.heading = 2 THEN "180_FLIP"
       ELSE IF pos.heading = 3 THEN "90_LEFT"
       ELSE ""

\* the fallback without the two correcting assignments of lines 671-672
SpatialFallbackUncorrected(c, result, tier) ==
  LET codeFwd == c[1]  codeR == c[2]  codeL == c[3]  codeU == c[4]
  IN IF tier = 2
     THEN IF result = "NORTH_EAST" THEN <<codeFwd, codeR, codeFwd>>
          ELSE IF result = "NORTH_WEST" THEN <<codeFwd, codeL, codeFwd>>
          ELSE IF result = "SOUTH_EAST" THEN <<codeR, codeFwd, codeFwd>>
          ELSE <<codeL, codeFwd, codeFwd>>
     ELSE IF result = "NO_CHANGE" THEN <<codeR, codeL, codeFwd>>
          ELSE IF result = "90_RIGHT" THEN <<codeFwd, codeR, codeFwd>>
          ELSE IF result = "90_LEFT" THEN <<codeFwd, codeL, codeFwd>>
          ELSE <<codeR, codeR, codeFwd>>

\* Safety Fallback: the sequence substituted when no trial hit the target
SpatialFallback(c, result, tier) ==
  LET codeFwd == c[1]  codeR == c[2]  codeL == c[3]  codeU == c[4]
  IN IF tier = 2
     THEN LET s1 == IF result = "NORTH_EAST" THEN <<codeFwd, codeR, codeFwd>>
                    ELSE IF result = "NORTH_WEST" THEN <<codeFwd, codeL, codeFwd>>
                    ELSE IF result = "SOUTH_EAST" THEN <<codeR, codeFwd, codeFwd>>
                    ELSE <<codeL, codeFwd, codeFwd>>
              s2 == IF result = "SOUTH_EAST" THEN <<codeU, codeFwd, codeL, codeFwd>> ELSE s1
              s3 == IF result = "SOUTH_WEST" THEN <<codeU, codeFwd, codeR, codeFwd>> ELSE s2
          IN s3
     ELSE IF result = "NO_CHANGE" THEN <<codeR, codeL, codeFwd>>
          ELSE IF result = "90_RIGHT" THEN <<codeFwd, codeR, codeFwd>>
          ELSE IF result = "90_LEFT" THEN <<codeFwd, codeL, codeFwd>>
          ELSE <<codeR, codeR, codeFwd>>

\* tiers 2 and 3: random 3-step sequences until one yields the target
SpatialSearch(c, result, tier) ==
  LET ops == <<c[1], c[2], c[3], c[4]>>
      seqs == {<<a, b, d>> : a \in getRandomItem(ops), b \in getRandomItem(ops),
                             d \in getRandomItem(ops)}
      outcome(seq) == SpatialOutcome(TurtleRun(seq, Len(seq), c[1], c[2], c[3], c[4]), tier)
      hits == {[sequence |-> seq, found |-> TRUE] : seq \in {q \in seqs : outcome(q) = result}}
      canMiss == \E q \in seqs : outcome(q) # result
  IN BoundedSearch(SpatialAttempts, hits, canMiss,
                   [sequence |-> SpatialFallback(c, result, tier), found |-> FALSE])

\* tier 1: the two absolute moves of the quadrant, in either order
SpatialAbsoluteMoves(c, result) ==
  LET moves == IF result = "NORTH_EAST" THEN <<c[1], c[3]>>
               ELSE IF result = "NORTH_WEST" THEN <<c[1], c[4]>>
               ELSE IF result = "SOUTH_EAST" THEN <<c[2], c[3]>>
               ELSE IF result = "SOUTH_WEST" THEN <<c[2], c[4]>>
               ELSE << >>
  IN IF Len(moves) = 2
     THEN {[sequence |-> moves, found |-> TRUE],
           [sequence |-> <<moves[2], moves[1]>>, found |-> TRUE]}
     ELSE {[sequence |-> moves, found |-> TRUE]}

\* the object literal of the Spatial dictionary
SpatialEntries(c, tier) ==
  IF tier = 1
  THEN <<<<c[1], "NORTH">>, <<c[2], "SOUTH">>, <<c[3], "EAST">>, <<c[4], "WEST">>>>
  ELSE <<<<c[1], "FORWARD">>, <<c[2], "TURN_RIGHT">>, <<c[3], "TURN_LEFT">>, <<c[4], "U_TURN">>>>

SpatialDictionary(c, tier) == shuffleEntries(SpatialEntries(c, tier))

generateFluxSpatial(prevResult, forceMatch, tier) ==
  UNION {UNION {
       {[type |-> "FLUX_SPATIAL", tier |-> tier, result |-> r,
         dictionary |-> SpatialDictionary(c, tier),
         visuals |-> [sequence |-> m.sequence],
         found |-> m.found]
          : m \in IF tier = 1 THEN SpatialAbsoluteMoves(c, r) ELSE SpatialSearch(c, r, tier)}
       : c \in CodeSeqs(4)}
       : r \in GeneratedResult("FLUX_SPATIAL", prevResult, forceMatch, tier)}

\* 7. FLUX DEICTIC
generateFluxDeictic(prevResult, forceMatch, tier) ==
  {[type |-> "FLUX_DEICTIC", tier |-> tier, result |-> r, visuals |-> [timeFrame |-> tf]]
     : r \in GeneratedResult("FLUX_DEICTIC", prevResult, forceMatch, tier),
       tf \in IF tier >= 2 THEN {"NOW", "THEN"} ELSE {"NOW"}}

\* 8. FLUX CONDITIONAL
generateFluxConditional(prevResult, forceMatch, tier) ==
  {[type |-> "FLUX_CONDITIONAL", tier |-> tier, result |-> r]
     : r \in GeneratedResult("FLUX_CONDITIONAL", prevResult, forceMatch, tier)}

\* 9. FLUX ANALOGY
generateFluxAnalogy(prevResult, forceMatch, tier) ==
  {[type |-> "FLUX_ANALOGY", tier |-> tier, result |-> r]
     : r \in GeneratedResult("FLUX_ANALOGY", prevResult, forceMatch, tier)}

\* the switch of nextTurn that picks the generator of a family
Generate(type, prevResult, forceMatch, tier) ==
  CASE type = "FLUX_FEATURE" -> generateFluxFeature(prevResult, forceMatch, tier)
    [] type = "FLUX_COMPARISON" -> generateFluxComparison(prevResult, forceMatch, tier)
    [] type = "FLUX_OPPOSITION" -> generateFluxOpposition(prevResult, forceMatch, tier)
    [] type = "FLUX_HIERARCHY" -> generateFluxHierarchy(prevResult, forceMatch, tier)
    [] type = "FLUX_CAUSAL" -> generateFluxCausal(prevResult, forceMatch, tier)
    [] type = "FLUX_SPATIAL" -> generateFluxSpatial(prevResult, forceMatch, tier)
    [] type = "FLUX_DEICTIC" -> generateFluxDeictic(prevResult, forceMatch, tier)
    [] type = "FLUX_CONDITIONAL" -> generateFluxConditional(prevResult, forceMatch, tier)
    [] type = "FLUX_ANALOGY" -> generateFluxAnalogy(prevResult, forceMatch, tier)
    [] OTHER -> generateFluxFeature(prevResult, forceMatch, tier)

\* the result lists of the repair-mode distractor switch in nextTurn
possibleResults(type) ==
  CASE type = "FLUX_FEATURE" -> <<"MATCH_COLOR", "MATCH_SHAPE", "EXACT", "NONE">>
    [] type = "FLUX_COMPARISON" -> <<"GREATER", "LESSER">>
    [] type = "FLUX_OPPOSITION" -> <<"SAME", "OPPOSITE", "DIFFERENT">>
    [] type = "FLUX_HIERARCHY" -> <<"HIGHER", "LOWER", "SAME">>
    [] type = "FLUX_CAUSAL" -> <<"TRIGGER", "BLOCK", "RED", "BLUE">>
    [] type = "FLUX_SPATIAL" -> <<"NORTH_EAST", "NORTH_WEST", "SOUTH_EAST", "SOUTH_WEST",
                                  "NO_CHANGE", "90_RIGHT", "90_LEFT", "180_FLIP">>
    [] type = "FLUX_DEICTIC" -> <<"LEFT", "RIGHT", "FRONT", "BACK">>
    [] type = "FLUX_CONDITIONAL" -> <<"RED", "BLUE">>
    [] type = "FLUX_ANALOGY" -> <<"ANALOGOUS", "NON_ANALOGOUS">>

\* ------------------------------------------------------- session helpers
getTierInclusive(elo) == IF elo <= 1200 THEN 1 ELSE IF elo <= 1500 THEN 2 ELSE 3

\* --- ELO TIER CALCULATOR ---
getTier(elo) == IF elo < 1200 THEN 1 ELSE IF elo < 1500 THEN 2 ELSE 3

\* the opposites table of applyMetaModifiers
opposites ==
  <<<<"GREATER", "LESSER">>, <<"LESSER", "GREATER">>,
    <<"SAME", "OPPOSITE">>, <<"OPPOSITE", "SAME">>, <<"DIFFERENT", "SAME">>,
    <<"HIGHER", "LOWER">>, <<"LOWER", "HIGHER">>,
    <<"TRIGGER", "BLOCK">>, <<"BLOCK", "TRIGGER">>,
    <<"RED", "BLUE">>, <<"BLUE", "RED">>,
    <<"LEFT", "RIGHT">>, <<"RIGHT", "LEFT">>, <<"FRONT", "BACK">>, <<"BACK", "FRONT">>,
    <<"NORTH_EAST", "SOUTH_WEST">>, <<"SOUTH_WEST", "NORTH_EAST">>,
    <<"NORTH_WEST", "SOUTH_EAST">>, <<"SOUTH_EAST", "NORTH_WEST">>,
    <<"NO_CHANGE", "180_FLIP">>, <<"180_FLIP", "NO_CHANGE">>,
    <<"90_RIGHT", "90_LEFT">>, <<"90_LEFT", "90_RIGHT">>,
    <<"ANALOGOUS", "NON_ANALOGOUS">>, <<"NON_ANALOGOUS", "ANALOGOUS">>,
    <<"MATCH_COLOR", "NONE">>, <<"MATCH_SHAPE", "NONE">>, <<"EXACT", "NONE">>>>

\* if (opposites[result])
HasOpposite(result) == \E i \in DOMAIN opposites : opposites[i][1] = result

\* opposites[result]
OppositeOf(result) == opposites[CHOOSE i \in DOMAIN opposites : opposites[i][1] = result][2]

\* Math.random() < 0.30 may or may not hold: at tier 3 a result with an
\* opposite is either kept or inverted
applyMetaModifiers(data, tier) ==
  {data} \cup
  (IF tier >= 3 /\ HasOpposite(data.result)
   THEN {[stim |-> [data.stim EXCEPT !.isNegated = TRUE, !.dictionary = @ \cup {"NIX"}],
          result |-> OppositeOf(data.result)]}
   ELSE {})

MetaModifiedAlways(data, tier, repair) == applyMetaModifiers(data, tier)

\* if (!isRepairMode) turnData = applyMetaModifiers(turnData, tier)
MetaModified(data, tier, repair) ==
  IF ~repair THEN applyMetaModifiers(data, tier) ELSE {data}

\* switch (stim.type) of getComplexityCost
TypeCost(stim) ==
  CASE stim.type = "FLUX_FEATURE" -> 1
    [] stim.type = "FLUX_COMPARISON" -> 2
    [] stim.type = "FLUX_OPPOSITION" -> 2
    [] stim.type = "FLUX_HIERARCHY" -> 3
    [] stim.type = "FLUX_CAUSAL" -> IF stim.tier >= 3 THEN 4 ELSE 3
    [] stim.type = "FLUX_SPATIAL" -> 3
    [] stim.type = "FLUX_DEICTIC" -> IF stim.timeFrame = "THEN" THEN 6 ELSE 4
    [] stim.type = "FLUX_CONDITIONAL" -> 5
    [] stim.type = "FLUX_ANALOGY" -> 5
    [] OTHER -> 1

getComplexityCostByType(stim) == TypeCost(stim)

getComplexityCost(stim) == IF stim.isNegated THEN 4 ELSE TypeCost(stim)

Max(a, b) == IF a >= b THEN a ELSE b

\* a HistoryItem | null that is null
NoItem ==
  [result |-> Null,
   stimulus |-> [type |-> Null, tier |-> 0, isNegated |-> FALSE, timeFrame |-> Null,
                 dictionary |-> {}]]

\* the value nextTurn gives the countdown, in hundredths of a second:
\* 100 s for the infinite timer, else max(3, baseTimer + (cost-1)*1.5 - 2*mod)
\* with mod = max(0, (activeElo-1000)/1000)
TurnTime(stim, elo, baseTimer) ==
  IF baseTimer = -1 THEN 10000
  ELSE Max(300, baseTimer * 100 + (getComplexityCost(stim) - 1) * 150
                - (Max(0, elo - 1000) \div 5))

\* what the session keeps of a generated stimulus: family, tier, the negation
\* flag, the Deictic time frame (the only visual the cost model reads) and, of
\* the dictionary, the keys that are not codes drawn by the generator
SessionStimuli(type, prevResult, forceMatch, tier) ==
  {[stim |-> [type |-> type, tier |-> tier, isNegated |-> FALSE, timeFrame |-> tf,
              dictionary |-> {}],
    result |-> r]
     : r \in GeneratedResult(type, prevResult, forceMatch, tier),
       tf \in IF type = "FLUX_DEICTIC"
              THEN (IF tier >= 2 THEN {"NOW", "THEN"} ELSE {"NOW"})
              ELSE {Null}}

Rotate(arr, k) == [i \in 1..Len(arr) |-> arr[((i - 1 + k) % Len(arr)) + 1]]

\* shuffleArray returns a permutation of the array; the model draws it from
\* MaxShuffles rotations (by 0, 4, 8, ... places)
shuffleArray(array) == {Rotate(array, (4 * k) % Len(array)) : k \in 0..(MaxShuffles - 1)}

AntiRepeatNone(queue, lastType) == queue

\* ANTI-REPEAT CHECK: a new bag whose top card is the last played block gets
\* that card moved to the bottom
AntiRepeat(queue, lastType) ==
  IF queue[1] = lastType THEN Append(Tail(queue), queue[1]) ELSE queue

\* Math.floor(Math.random() * 6) + 3, a value of 3..8; the model draws it
\* from the first MaxVariances values
Variances == {v \in 3..8 : v < 3 + MaxVariances}

\* --------------------------------------------------------------- variables
VARIABLES
  config,               \* GameConfig
  realElo,              \* persisted rating
  activeElo,            \* rating used for generation
  consecutiveFailures,
  isRepairMode,
  repairSuccesses,
  repairTargetType,
  repairTargetResult,
  phase,
  history,              \* HistoryItem[]
  logs,                 \* LogEntry[], newest first
  currentItem,
  turnCount,
  timer,                \* countdown value in hundredths of a second
  blockState,           \* [type, remaining]
  frameQueue,           \* the bag
  turns,                \* number of turns generated so far in the run (bounds the model)
  switches,             \* families drawn by the block switches so far, oldest first
  lastTurn,             \* what the newest turn was generated from: isBlockSwitch, prevResult, makeMatch, shouldMatch
                        \* and the producer of the item the prevResult was taken from
  produced,             \* for each item of history, who chose its family (by) and the family (type)
  gen                   \* one generator call: its inputs, and its output once it has run

sessionVars ==
  <<config, realElo, activeElo, consecutiveFailures, isRepairMode, repairSuccesses,
    repairTargetType, repairTargetResult, phase, history, logs, currentItem, turnCount,
    timer, blockState, frameQueue, turns, switches, lastTurn, produced>>

vars == <<sessionVars, gen>>

\* K = 10; Math.round(K * ((isCorrect ? 1 : 0) - 0.5))
K == 10

EloDiff(isCorrect) == IF isCorrect THEN K \div 2 ELSE -(K \div 2)

DefaultElo == 1000

GameConfig(n, b, pm, pt) ==
  [nBackLevel |-> n, baseTimer |-> b, isPracticeMode |-> pm, practiceType |-> pt]

DefaultConfig == GameConfig(1, 10, FALSE, Null)

\* ratings found in storage at load: none (the default) or the floor
StoredElos == {DefaultElo, 0}

\* the configurations the settings dialog saves: every N-back level up to
\* MaxN with the default timer, the infinite timer, and practice mode with
\* the mixed schedule and locked to one family
SettingsInputs ==
  {GameConfig(n, 10, FALSE, Null) : n \in 1..MaxN}
    \cup {GameConfig(1, -1, FALSE, Null),
          GameConfig(1, 10, TRUE, "MIXED"),
          GameConfig(1, 10, TRUE, "FLUX_CAUSAL")}

\* state after the component is constructed with the configuration cfg in
\* storage
Constructed(cfg) ==
  /\ config = cfg
  /\ realElo \in StoredElos
  /\ activeElo = realElo
  /\ consecutiveFailures = 0
  /\ isRepairMode = FALSE
  /\ repairSuccesses = 0
  /\ repairTargetType = Null
  /\ repairTargetResult = ""
  /\ phase = "IDLE"
  /\ history = << >>
  /\ logs = << >>
  /\ currentItem = NoItem
  /\ turnCount = 0
  /\ timer = 0
  /\ blockState = [type |-> "FLUX_FEATURE", remaining |-> 0]
  /\ frameQueue = << >>
  /\ turns = 0
  /\ switches = << >>
  /\ lastTurn = [isBlockSwitch |-> FALSE, prevResult |-> Null, prevBy |-> Null,
                 makeMatch |-> FALSE, shouldMatch |-> FALSE]
  /\ produced = << >>

\* state after the component is constructed with nothing in storage
SessionInit == Constructed(DefaultConfig)

Init ==
  /\ SessionInit
  /\ gen = [pc |-> "idle"]

\* useEffect(() => setActiveElo(realElo), [config.isPracticeMode, realElo]):
\* the active rating after an event that leaves the ratings real1 / active1
\* and the configuration cfg1
SyncedElo(real1, active1, cfg1) ==
  IF real1 # realElo \/ cfg1.isPracticeMode # config.isPracticeMode THEN real1 ELSE active1

\* ---------------------------------------------------------------- nextTurn
\* the family of the turn and the scheduler state after it
\* (sets blockState', frameQueue'; yields [type, isBlockSwitch])
RepairLockNever == FALSE

\* if (isRepairMode && repairTargetType): the turn is locked to the repair family
RepairLock == isRepairMode /\ repairTargetType # Null

\* which branch of nextTurn chooses the family of the turn
Producer ==
  IF RepairLock THEN "repair"
  ELSE IF config.isPracticeMode /\ config.practiceType # Null /\ config.practiceType # "MIXED"
  THEN "practice"
  ELSE "scheduler"

BlockLengthTwice(n, variance) == (n * 2) + variance

\* blockState.current.remaining = (config.nBackLevel * 3) + variance
BlockLength(n, variance) == (n * 3) + variance

BagEmptyAtOne(queue) == Len(queue) <= 1

\* if (frameQueue.current.length === 0)
BagEmpty(queue) == Len(queue) = 0

Schedule(n) ==
  IF RepairLock
  THEN {[type |-> repairTargetType, isBlockSwitch |-> FALSE,
         block |-> blockState, queue |-> frameQueue]}
  ELSE IF config.isPracticeMode /\ config.practiceType # Null /\ config.practiceType # "MIXED"
  THEN {[type |-> config.practiceType, isBlockSwitch |-> FALSE,
         block |-> blockState, queue |-> frameQueue]}
  ELSE IF blockState.remaining <= 0
  THEN LET refilled == IF BagEmpty(frameQueue)
                       THEN {AntiRepeat(q, blockState.type) : q \in shuffleArray(allTypes)}
                       ELSE {frameQueue}
       IN {[type |-> q[1], isBlockSwitch |-> TRUE,
            block |-> [type |-> q[1], remaining |-> BlockLength(n, variance) - 1],
            queue |-> Tail(q)] : q \in refilled, variance \in Variances}
  ELSE {[type |-> blockState.type, isBlockSwitch |-> FALSE,
         block |-> [blockState EXCEPT !.remaining = blockState.remaining - 1],
         queue |-> frameQueue]}

HistoryUpdateAppend(isBlockSwitch, prev, newItem) == Append(prev, newItem)

\* HISTORY UPDATE (Reset on Switch)
HistoryUpdate(isBlockSwitch, prev, newItem) ==
  IF isBlockSwitch /\ ~isRepairMode THEN <<newItem>> ELSE Append(prev, newItem)

InWarmupInclusive(effectiveHistory, n) == effectiveHistory <= n

\* if (effectiveHistory < n) setPhase('WARMUP'); else setPhase('PLAYING')
InWarmup(effectiveHistory, n) == effectiveHistory < n

RepairTargetUnfiltered(type, result, makeMatch) ==
  IF makeMatch THEN {result} ELSE getRandomItem(possibleResults(type))

\* Repair Mode Target Logic: the result of the turn if makeMatch, else a
\* result of the family other than it (distractor || newItem.result)
RepairTarget(type, result, makeMatch) ==
  IF makeMatch THEN {result}
  ELSE LET distractor == getRandomItem(FilterNot(possibleResults(type), result))
       IN IF distractor = {} THEN {result} ELSE distractor

\* nextTurn as seen by a caller whose closure holds the history h, when the
\* state it appends to is base, the phase it leaves alone in repair mode is
\* ph0 and the turn counter is tc0.  fromTick: the call is made inside the
\* updater of setTimer (timer expiry), which itself returns 0; which of the
\* two writes of the countdown wins is left open
nextTurn(h, base, ph0, tc0, fromTick) ==
  /\ turns < MaxTurns
  /\ turns' = turns + 1
  /\ LET n == config.nBackLevel
         tier == getTier(activeElo)
     IN \E s \in Schedule(n), shouldMatch \in BOOLEAN, makeMatch \in BOOLEAN :
          LET effectiveHistory == IF s.isBlockSwitch THEN 0 ELSE Len(h)
              prevNItem == IF ~s.isBlockSwitch /\ ~isRepairMode /\ Len(h) >= n
                           THEN h[Len(h) - n + 1] ELSE NoItem
              prevResult == IF prevNItem # NoItem THEN prevNItem.result ELSE Null
              prevBy == IF prevNItem # NoItem THEN produced[Len(h) - n + 1].by ELSE Null
              by == [by |-> Producer, type |-> s.type]
              generated == SessionStimuli(s.type, prevResult, shouldMatch, tier)
              turnData == UNION {MetaModified(g, tier, isRepairMode) : g \in generated}
          IN \E d \in turnData :
               LET newItem == [result |-> d.result, stimulus |-> d.stim]
               IN /\ blockState' = s.block
                  /\ frameQueue' = s.queue
                  /\ switches' = IF s.isBlockSwitch THEN Append(switches, s.type) ELSE switches
                  /\ lastTurn' = [isBlockSwitch |-> s.isBlockSwitch, prevResult |-> prevResult,
                                  prevBy |-> prevBy,
                                  makeMatch |-> isRepairMode /\ makeMatch,
                                  shouldMatch |-> prevResult # Null /\ shouldMatch]
                  /\ produced' = IF s.isBlockSwitch /\ ~isRepairMode THEN <<by>>
                                 ELSE IF base = << >> THEN <<by>> ELSE Append(produced, by)
                  /\ phase' = IF s.isBlockSwitch /\ ~isRepairMode THEN "WARMUP"
                              ELSE IF ~isRepairMode
                                   THEN (IF InWarmup(effectiveHistory, n) THEN "WARMUP"
                                         ELSE "PLAYING")
                                   ELSE ph0
                  /\ repairTargetResult' \in
                       IF isRepairMode
                       THEN RepairTarget(s.type, newItem.result, makeMatch)
                       ELSE {repairTargetResult}
                  /\ currentItem' = newItem
                  /\ history' = HistoryUpdate(s.isBlockSwitch, base, newItem)
                  /\ turnCount' = tc0 + 1
                  /\ timer' \in {TurnTime(newItem.stimulus, activeElo, config.baseTimer)}
                               \cup (IF fromTick THEN {0} ELSE {})

\* ------------------------------------------------------------ handleAnswer
EloUpdateNoFloor(p, diff) == p + diff

\* p => Math.max(0, p + diff)
EloUpdate(p, diff) == Max(0, p + diff)

PersistsRatingAlways(cfg) == TRUE

PersistsRatingNever(cfg) == FALSE

\* if (!config.isPracticeMode) setRealElo(...)
PersistsRating(cfg) == ~cfg.isPracticeMode

updateElo(isCorrect) ==
  IF isRepairMode
  THEN /\ realElo' = realElo
       /\ activeElo' = activeElo
  ELSE LET diff == EloDiff(isCorrect)
           real1 == IF PersistsRating(config) THEN EloUpdate(realElo, diff) ELSE realElo
       IN /\ realElo' = real1
          /\ activeElo' = SyncedElo(real1, EloUpdate(activeElo, diff), config)

LogEntry(nBackItem, item, userMatch, isMatch, isCorrect, isRepair, isTimeout) ==
  [id |-> turnCount, elo |-> activeElo, nBackItem |-> nBackItem, currentItem |-> item,
   userAnswer |-> userMatch, isMatch |-> isMatch, isCorrect |-> isCorrect,
   isRepair |-> isRepair, timedOut |-> isTimeout]

LogsUpdateLatest(entry, prev) == <<entry>>

\* setLogs(prev => [{ ... }, ...prev])
LogsUpdate(entry, prev) == <<entry>> \o prev

RepairExitFailuresKept(failures) == failures

\* setConsecutiveFailures(0) on leaving repair mode
RepairExitFailures(failures) == 0

RepairExitAfterTwo(newStreak) == newStreak >= 2

\* if (newStreak >= 3)
RepairExit(newStreak) == newStreak >= 3

\* REPAIR MODE ANSWER LOGIC
RepairAnswer(userMatch, isTimeout) ==
  LET isTargetActuallyTrue == currentItem.result = repairTargetResult
      isCorrect == IF isTimeout THEN FALSE ELSE (userMatch = isTargetActuallyTrue)
      newStreak == repairSuccesses + 1
  IN /\ IF isCorrect
        THEN IF RepairExit(newStreak)
             THEN /\ isRepairMode' = FALSE
                  /\ repairTargetType' = Null
                  /\ consecutiveFailures' = RepairExitFailures(consecutiveFailures)
                  /\ repairSuccesses' = 0
             ELSE /\ repairSuccesses' = newStreak
                  /\ UNCHANGED <<isRepairMode, repairTargetType, consecutiveFailures>>
        ELSE /\ repairSuccesses' = 0
             /\ UNCHANGED <<isRepairMode, repairTargetType, consecutiveFailures>>
     /\ logs' = LogsUpdate(LogEntry(NoItem, currentItem, userMatch, isTargetActuallyTrue,
                                    isCorrect, TRUE, isTimeout), logs)
     /\ phase' = "FEEDBACK"
     /\ timer' = IF isTimeout THEN 0 ELSE timer
     /\ UNCHANGED <<realElo, activeElo, history, currentItem, turnCount, blockState,
                    frameQueue, repairTargetResult, turns, switches, lastTurn, produced>>

NBackTargetOffByOne(h, n) == h[Len(h) - n + 1]

\* history[history.length - 1 - n], the sequence being indexed from 1
NBackTarget(h, n) == h[Len(h) - n]

RepairEntryAfterTwo(failures) == failures + 1 >= 2

\* if (consecutiveFailures + 1 >= 3)
RepairEntry(failures) == failures + 1 >= 3

\* STANDARD LOGIC, history longer than n: the turn is judged
StandardAnswer(userMatch, isTimeout) ==
  LET n == config.nBackLevel
      current == history[Len(history)]
      target == NBackTarget(history, n)
      isMatch == current.result = target.result
      isCorrect == IF isTimeout THEN FALSE ELSE (userMatch = isMatch)
  IN /\ IF ~isCorrect
        THEN /\ consecutiveFailures' = consecutiveFailures + 1
             /\ IF RepairEntry(consecutiveFailures)
                THEN /\ isRepairMode' = TRUE
                     /\ repairTargetType' = current.stimulus.type
                     /\ repairSuccesses' = 0
                ELSE UNCHANGED <<isRepairMode, repairTargetType, repairSuccesses>>
        ELSE /\ consecutiveFailures' = 0
             /\ UNCHANGED <<isRepairMode, repairTargetType, repairSuccesses>>
     /\ updateElo(isCorrect)
     /\ logs' = LogsUpdate(LogEntry(target, current, userMatch, isMatch, isCorrect, FALSE,
                                    isTimeout), logs)
     /\ phase' = "FEEDBACK"
     /\ timer' = IF isTimeout THEN 0 ELSE timer
     /\ UNCHANGED <<history, currentItem, turnCount, blockState, frameQueue,
                    repairTargetResult, turns, switches, lastTurn, produced>>

\* if (history.length <= n) { nextTurn(); return; }
NoTargetYet(h, n) == Len(h) <= n

handleAnswer(userMatch, isTimeout) ==
  IF isRepairMode /\ currentItem # NoItem
  THEN RepairAnswer(userMatch, isTimeout)
  ELSE IF NoTargetYet(history, config.nBackLevel)
  THEN /\ nextTurn(history, history, phase, turnCount, isTimeout)
       /\ UNCHANGED <<realElo, activeElo, consecutiveFailures, isRepairMode,
                      repairSuccesses, repairTargetType, logs>>
  ELSE StandardAnswer(userMatch, isTimeout)

\* ------------------------------------------------------------------ events
\* every event (a click, a key, the expiry of the countdown) is one step: its
\* handler reads the state of the last render, and the state it sets is
\* rendered, the effects re-run (the interval cleared or restarted, the key
\* listener replaced), before the next event is delivered
\* INITIALIZE button (shown in phase IDLE): the state is reset and nextTurn
\* runs from setTimeout with the closure of the render in which the button
\* was clicked, so it still sees the history of before the reset
init ==
  /\ phase = "IDLE"
  /\ logs' = << >>
  /\ nextTurn(history, << >>, "WARMUP", 0, FALSE)
  /\ UNCHANGED <<config, realElo, activeElo, consecutiveFailures, isRepairMode,
                 repairSuccesses, repairTargetType, gen>>

AnswerLiveAnyPhase(ph) == TRUE

\* if (phase === 'PLAYING' || phase === 'WARMUP') of handleKeyDown, and the
\* condition under which the answer buttons are rendered
AnswerLive(ph) == ph \in {"WARMUP", "PLAYING"}

\* the MATCH / NO MATCH (TRUE / FALSE) buttons and keys, live in WARMUP and PLAYING
Answer ==
  /\ AnswerLive(phase)
  /\ currentItem # NoItem
  /\ \E userMatch \in BOOLEAN : handleAnswer(userMatch, FALSE)
  /\ UNCHANGED <<config, gen>>

TimerLiveAnyPhase(ph) == TRUE

\* (phase === 'PLAYING' || phase === 'WARMUP') of the timer effect, whose
\* cleanup clears the interval whenever the phase changes
TimerLive(ph) == ph \in {"PLAYING", "WARMUP"}

TimerRunsAlways(baseTimer) == TRUE

\* config.baseTimer !== -1 of the timer effect
TimerRuns(baseTimer) == baseTimer # -1

\* the countdown reaches zero: a timeout answer in PLAYING, an advance in WARMUP
Timeout ==
  /\ TimerLive(phase)
  /\ timer > 0
  /\ TimerRuns(config.baseTimer)
  /\ IF phase = "PLAYING"
     THEN handleAnswer(FALSE, TRUE)
     ELSE /\ nextTurn(history, history, phase, turnCount, TRUE)
          /\ UNCHANGED <<realElo, activeElo, consecutiveFailures, isRepairMode,
                         repairSuccesses, repairTargetType, logs>>
  /\ UNCHANGED <<config, gen>>

\* CONTINUE button / Enter key, live in FEEDBACK
handleContinue ==
  /\ phase = "FEEDBACK"
  /\ nextTurn(history, history,
              IF Len(history) < config.nBackLevel /\ ~isRepairMode THEN "WARMUP" ELSE "PLAYING",
              turnCount, FALSE)
  /\ UNCHANGED <<config, realElo, activeElo, consecutiveFailures, isRepairMode,
                 repairSuccesses, repairTargetType, logs, gen>>

\* the rating-reset button (shown outside practice mode), confirmed
resetRealElo ==
  /\ ~config.isPracticeMode
  /\ realElo' = DefaultElo
  /\ activeElo' = DefaultElo
  /\ phase' = "IDLE"
  /\ UNCHANGED <<config, consecutiveFailures, isRepairMode, repairSuccesses,
                 repairTargetType, repairTargetResult, history, logs, currentItem,
                 turnCount, timer, blockState, frameQueue, turns, switches, lastTurn, produced, gen>>

\* SAVE & RESTART of the settings dialog with the edited configuration
saveSettings ==
  /\ \E tempConfig \in SettingsInputs : config' = tempConfig
  /\ activeElo' = realElo
  /\ phase' = "IDLE"
  /\ history' = << >>
  /\ logs' = << >>
  /\ produced' = << >>
  /\ UNCHANGED <<realElo, consecutiveFailures, isRepairMode, repairSuccesses,
                 repairTargetType, repairTargetResult, currentItem, turnCount, timer,
                 blockState, frameQueue, turns, switches, lastTurn, gen>>

Next ==
  \/ init
  \/ Answer
  \/ Timeout
  \/ handleContinue
  \/ resetRealElo
  \/ saveSettings

Spec == Init /\ [][Next]_vars

\* ------------------------------------ specification of a run from repair entry
\* the state in which repair mode has just been entered in the first session
\* of a fresh installation: INITIALIZE, the warm-up turn answered, then three
\* Comparison turns scored incorrect (two wrong answers and a timeout)
RepairEntryItem(r) ==
  [result |-> r,
   stimulus |-> [type |-> "FLUX_COMPARISON", tier |-> 1, isNegated |-> FALSE,
                 timeFrame |-> Null, dictionary |-> {}]]

RepairEntryHistory ==
  <<RepairEntryItem("GREATER"), RepairEntryItem("LESSER"), RepairEntryItem("GREATER"),
    RepairEntryItem("LESSER")>>

RepairEntryLog(k, userMatch, isTimeout) ==
  [id |-> k, elo |-> DefaultElo - 5 * (k - 2), nBackItem |-> RepairEntryHistory[k - 1],
   currentItem |-> RepairEntryHistory[k], userAnswer |-> userMatch, isMatch |-> FALSE,
   isCorrect |-> FALSE, isRepair |-> FALSE, timedOut |-> isTimeout]

RepairEntryState ==
  /\ config = DefaultConfig
  /\ realElo = DefaultElo - 15
  /\ activeElo = DefaultElo - 15
  /\ consecutiveFailures = 3
  /\ isRepairMode = TRUE
  /\ repairSuccesses = 0
  /\ repairTargetType = "FLUX_COMPARISON"
  /\ repairTargetResult = ""
  /\ phase = "FEEDBACK"
  /\ history = RepairEntryHistory
  /\ logs = <<RepairEntryLog(4, FALSE, TRUE), RepairEntryLog(3, TRUE, FALSE),
              RepairEntryLog(2, TRUE, FALSE)>>
  /\ currentItem = RepairEntryHistory[4]
  /\ turnCount = 4
  /\ timer = 0
  /\ blockState = [type |-> "FLUX_COMPARISON", remaining |-> 2]
  /\ frameQueue = <<"FLUX_OPPOSITION", "FLUX_HIERARCHY", "FLUX_CAUSAL", "FLUX_SPATIAL",
                    "FLUX_DEICTIC", "FLUX_CONDITIONAL", "FLUX_ANALOGY", "FLUX_FEATURE">>
  /\ switches = <<"FLUX_COMPARISON">>
  /\ lastTurn = [isBlockSwitch |-> FALSE, prevResult |-> "GREATER", prevBy |-> "scheduler",
                 makeMatch |-> FALSE, shouldMatch |-> FALSE]
  /\ produced = [i \in 1..4 |-> [by |-> "scheduler", type |-> "FLUX_COMPARISON"]]

\* one turn of the run's budget is counted as spent on the way here
InitRepair ==
  /\ RepairEntryState
  /\ turns = 1
  /\ gen = [pc |-> "idle"]

SpecRepair == InitRepair /\ [][Next]_vars

\* -------------------------- specification of a session about to enter repair mode
\* the state before the answer that leads to RepairEntryState: two failures
\* in a row, the fourth turn of the block live and its countdown running
RepairPendingState ==
  /\ config = DefaultConfig
  /\ realElo = DefaultElo - 10
  /\ activeElo = DefaultElo - 10
  /\ consecutiveFailures = 2
  /\ isRepairMode = FALSE
  /\ repairSuccesses = 0
  /\ repairTargetType = Null
  /\ repairTargetResult = ""
  /\ phase = "PLAYING"
  /\ history = RepairEntryHistory
  /\ logs = <<RepairEntryLog(3, TRUE, FALSE), RepairEntryLog(2, TRUE, FALSE)>>
  /\ currentItem = RepairEntryHistory[4]
  /\ turnCount = 4
  /\ timer = 1150
  /\ blockState = [type |-> "FLUX_COMPARISON", remaining |-> 2]
  /\ frameQueue = <<"FLUX_OPPOSITION", "FLUX_HIERARCHY", "FLUX_CAUSAL", "FLUX_SPATIAL",
                    "FLUX_DEICTIC", "FLUX_CONDITIONAL", "FLUX_ANALOGY", "FLUX_FEATURE">>
  /\ switches = <<"FLUX_COMPARISON">>
  /\ lastTurn = [isBlockSwitch |-> FALSE, prevResult |-> "GREATER", prevBy |-> "scheduler",
                 makeMatch |-> FALSE, shouldMatch |-> FALSE]
  /\ produced = [i \in 1..4 |-> [by |-> "scheduler", type |-> "FLUX_COMPARISON"]]

\* one turn of the run's budget is counted as spent on the way here
InitEntry ==
  /\ RepairPendingState
  /\ turns = 1
  /\ gen = [pc |-> "idle"]

SpecEntry == InitEntry /\ [][Next]_vars

\* ------------------------------- specification of a session late in a block
\* the state after INITIALIZE and SAVE & RESTART, four times over, from
\* construction: the first block has two turns left, the item of the last
\* turn and what is left of its countdown are still in place
BlockLateState ==
  /\ config = DefaultConfig
  /\ realElo = DefaultElo
  /\ activeElo = DefaultElo
  /\ consecutiveFailures = 0
  /\ isRepairMode = FALSE
  /\ repairSuccesses = 0
  /\ repairTargetType = Null
  /\ repairTargetResult = ""
  /\ phase = "IDLE"
  /\ history = << >>
  /\ logs = << >>
  /\ currentItem = RepairEntryItem("LESSER")
  /\ turnCount = 1
  /\ timer = 1150
  /\ blockState = [type |-> "FLUX_COMPARISON", remaining |-> 2]
  /\ frameQueue = <<"FLUX_OPPOSITION", "FLUX_HIERARCHY", "FLUX_CAUSAL", "FLUX_SPATIAL",
                    "FLUX_DEICTIC", "FLUX_CONDITIONAL", "FLUX_ANALOGY", "FLUX_FEATURE">>
  /\ switches = <<"FLUX_COMPARISON">>
  /\ lastTurn = [isBlockSwitch |-> FALSE, prevResult |-> Null, prevBy |-> Null,
                 makeMatch |-> FALSE, shouldMatch |-> FALSE]
  /\ produced = << >>

\* the turns generated from here on are counted from zero
InitLate ==
  /\ BlockLateState
  /\ turns = 0
  /\ gen = [pc |-> "idle"]

SpecLate == InitLate /\ [][Next]_vars

\* --------------------------- specification of a run from the end of a block
\* the state two turns after BlockLateState, at N-back level n: INITIALIZE
\* and the answer to the first warm-up turn (for n > 1 after SAVE & RESTART
\* with level n); the block has no turn left, so the next turn switches
BlockEndState(n) ==
  /\ config = GameConfig(n, 10, FALSE, Null)
  /\ realElo = DefaultElo
  /\ activeElo = DefaultElo
  /\ consecutiveFailures = 0
  /\ isRepairMode = FALSE
  /\ repairSuccesses = 0
  /\ repairTargetType = Null
  /\ repairTargetResult = ""
  /\ phase = IF n = 1 THEN "PLAYING" ELSE "WARMUP"
  /\ history = <<RepairEntryItem("GREATER"), RepairEntryItem("LESSER")>>
  /\ logs = << >>
  /\ currentItem = RepairEntryItem("LESSER")
  /\ turnCount = 2
  /\ timer = 1150
  /\ blockState = [type |-> "FLUX_COMPARISON", remaining |-> 0]
  /\ frameQueue = <<"FLUX_OPPOSITION", "FLUX_HIERARCHY", "FLUX_CAUSAL", "FLUX_SPATIAL",
                    "FLUX_DEICTIC", "FLUX_CONDITIONAL", "FLUX_ANALOGY", "FLUX_FEATURE">>
  /\ switches = <<"FLUX_COMPARISON">>
  /\ lastTurn = [isBlockSwitch |-> FALSE,
                 prevResult |-> IF n = 1 THEN "GREATER" ELSE Null,
                 prevBy |-> IF n = 1 THEN "scheduler" ELSE Null,
                 makeMatch |-> FALSE, shouldMatch |-> FALSE]
  /\ produced = <<[by |-> "scheduler", type |-> "FLUX_COMPARISON"],
                  [by |-> "scheduler", type |-> "FLUX_COMPARISON"]>>

\* the turns generated from here on are counted from zero
InitBlock ==
  /\ \E n \in 1..MaxN : BlockEndState(n)
  /\ turns = 0
  /\ gen = [pc |-> "idle"]

\* uninterrupted play: the user answers, lets the countdown run out and
\* continues, and never resets the session
NextBlock ==
  \/ Answer
  \/ Timeout
  \/ handleContinue

SpecBlock == InitBlock /\ [][NextBlock]_vars

\* ------------------------------------ specification of the scheduler on its own
\* the scheduling section of nextTurn (the family of the turn, the block and
\* the bag), called turn after turn by a session that is neither in practice
\* mode nor in repair mode, at a fixed N-back level
InitSched ==
  /\ \E n \in 1..MaxN : Constructed(GameConfig(n, 10, FALSE, Null))
  /\ realElo = DefaultElo
  /\ gen = [pc |-> "idle"]

scheduleTurn ==
  /\ blockState.remaining > 0 \/ Len(switches) < MaxSwitches
  /\ \E s \in Schedule(config.nBackLevel) :
       /\ blockState' = s.block
       /\ frameQueue' = s.queue
       /\ switches' = IF s.isBlockSwitch THEN Append(switches, s.type) ELSE switches
  /\ UNCHANGED <<config, realElo, activeElo, consecutiveFailures, isRepairMode,
                 repairSuccesses, repairTargetType, repairTargetResult, phase, history,
                 logs, currentItem, turnCount, timer, turns, lastTurn, produced, gen>>

NextSched == scheduleTurn

SpecSched == InitSched /\ [][NextSched]_vars

\* ------------------------------------- specification of loading the stored state
\* what localStorage holds under a key: nothing, or a text.  The text of the
\* rating key is a sequence of characters, the text of the configuration key
\* a sequence of JSON tokens
DecimalDigits == <<"0", "1", "2", "3", "4", "5", "6", "7", "8", "9">>

IsDigit(c) == \E d \in DOMAIN DecimalDigits : DecimalDigits[d] = c

DigitValue(c) == (CHOOSE d \in DOMAIN DecimalDigits : DecimalDigits[d] = c) - 1

\* number of leading decimal digits of a text
RECURSIVE LeadingDigits(_)
LeadingDigits(text) ==
  IF text # << >> /\ IsDigit(Head(text)) THEN 1 + LeadingDigits(Tail(text)) ELSE 0

RECURSIVE DecimalValue(_)
DecimalValue(digits) ==
  IF digits = << >> THEN 0
  ELSE 10 * DecimalValue(SubSeq(digits, 1, Len(digits) - 1)) + DigitValue(digits[Len(digits)])

\* parseInt(saved, 10): an optional sign, then the longest run of decimal
\* digits; NaN when there is no digit
parseInt(text) ==
  LET negative == text # << >> /\ Head(text) = "-"
      body == IF negative THEN Tail(text) ELSE text
      k == LeadingDigits(body)
      value == DecimalValue(SubSeq(body, 1, k))
  IN IF k = 0 THEN [nan |-> TRUE, value |-> 0]
     ELSE [nan |-> FALSE, value |-> IF negative THEN -value ELSE value]

\* the JSON token of a number of a configuration (-1, 0..10)
NumberToken(n) == IF n = -1 THEN "-1" ELSE IF n = 10 THEN "10" ELSE DecimalDigits[n + 1]

TokenNumber(t) == CHOOSE n \in -1..10 : NumberToken(n) = t

\* JSON.stringify(config); a practiceType that is not set is left out
stringify(cfg) ==
  <<"{", "nBackLevel", NumberToken(cfg.nBackLevel), "baseTimer", NumberToken(cfg.baseTimer),
    "isPracticeMode", IF cfg.isPracticeMode THEN "true" ELSE "false">>
  \o (IF cfg.practiceType # Null THEN <<"practiceType", cfg.practiceType>> ELSE << >>)
  \o <<"}">>

\* the value of a key in the token sequence of an object, Null without the key
Member(text, key) ==
  LET at == {i \in 2..(Len(text) - 2) : i % 2 = 0 /\ text[i] = key}
  IN IF at = {} THEN Null ELSE text[(CHOOSE i \in at : TRUE) + 1]

\* JSON.parse(saved) for the texts of StoredConfigs: a text that is not a
\* closed object raises SyntaxError
JSONparse(text) ==
  IF Len(text) >= 2 /\ text[1] = "{" /\ text[Len(text)] = "}" /\ Len(text) % 2 = 0
  THEN [thrown |-> FALSE,
        value |-> GameConfig(TokenNumber(Member(text, "nBackLevel")),
                             TokenNumber(Member(text, "baseTimer")),
                             Member(text, "isPracticeMode") = "true",
                             Member(text, "practiceType"))]
  ELSE [thrown |-> TRUE, value |-> DefaultConfig]

\* const saved = localStorage.getItem(key); if (saved) ...: the key is there
\* and its text is not the empty one
Saved(slot) == slot.present /\ slot.text # << >>

\* the initializer of the config state
LoadConfig(slot) ==
  IF Saved(slot) THEN JSONparse(slot.text) ELSE [thrown |-> FALSE, value |-> DefaultConfig]

\* the initializer of the realElo and activeElo states
LoadElo(slot) ==
  IF Saved(slot) THEN parseInt(slot.text) ELSE [nan |-> FALSE, value |-> DefaultElo]

\* longest text found under the rating key, in characters
MaxStored == 3

\* the characters of the texts found under the rating key
StoredChars == {"0", "1", "x", "-"}

RECURSIVE Texts(_)
Texts(k) ==
  IF k = 0 THEN {<< >>}
  ELSE Texts(k - 1) \cup {Append(t, c) : t \in {u \in Texts(k - 1) : Len(u) = k - 1},
                                         c \in StoredChars}

Absent == [present |-> FALSE, text |-> << >>]

StoredRatings == {Absent} \cup {[present |-> TRUE, text |-> t] : t \in Texts(MaxStored)}

\* the configuration texts found in storage: what the persistence effect
\* writes for a saved configuration, and such a text cut short
StoredConfigs ==
  {Absent}
    \cup {[present |-> TRUE, text |-> stringify(c)] : c \in SettingsInputs}
    \cup {[present |-> TRUE, text |-> SubSeq(stringify(DefaultConfig), 1, k)]
            : k \in 0..(Len(stringify(DefaultConfig)) - 1)}

\* before the component is constructed the session variables hold the values
\* construction gives them with nothing in storage
InitLoad ==
  /\ SessionInit
  /\ realElo = DefaultElo
  /\ gen \in {[pc |-> "stored", config |-> c, elo |-> e]
                : c \in StoredConfigs, e \in StoredRatings}

\* the first render: the initializers of config, realElo and activeElo run.
\* An exception of JSON.parse leaves the component unconstructed ("thrown");
\* a rating that is not a number is recorded as "NaN"
Mount ==
  /\ gen.pc = "stored"
  /\ LET c == LoadConfig(gen.config)
         e == LoadElo(gen.elo)
     IN IF c.thrown
        THEN /\ gen' = [gen EXCEPT !.pc = "thrown"]
             /\ UNCHANGED sessionVars
        ELSE /\ config' = c.value
             /\ IF e.nan
                THEN /\ gen' = [gen EXCEPT !.pc = "NaN"]
                     /\ UNCHANGED <<realElo, activeElo>>
                ELSE /\ gen' = [gen EXCEPT !.pc = "mounted"]
                     /\ realElo' = e.value
                     /\ activeElo' = e.value
             /\ UNCHANGED <<consecutiveFailures, isRepairMode, repairSuccesses,
                            repairTargetType, repairTargetResult, phase, history, logs,
                            currentItem, turnCount, timer, blockState, frameQueue, turns,
                            switches, lastTurn, produced>>

NextLoad == Mount

SpecLoad == InitLoad /\ [][NextLoad]_vars

\* ------------------------------------------- specification of a generator call
\* prevResult inputs: none, every result of the family (all tiers), and one
\* result of another family
PrevInputs(type) ==
  {Null} \cup Range(possibleResults(type))
         \cup {IF type = "FLUX_COMPARISON" THEN "HIGHER" ELSE "GREATER"}

InitGen ==
  /\ SessionInit
  /\ realElo = DefaultElo
  /\ gen \in {[pc |-> "input", type |-> t, tier |-> tr, prevResult |-> p, forceMatch |-> f]
                : t \in Range(allTypes), tr \in 1..3, f \in BOOLEAN,
                  p \in UNION {PrevInputs(u) : u \in Range(allTypes)}}
  /\ gen.prevResult \in PrevInputs(gen.type)

RunGenerator(type) ==
  /\ gen.pc = "input"
  /\ gen.type = type
  /\ \E out \in Generate(type, gen.prevResult, gen.forceMatch, gen.tier) :
       gen' = [pc |-> "done", type |-> gen.type, tier |-> gen.tier,
               prevResult |-> gen.prevResult, forceMatch |-> gen.forceMatch, out |-> out]
  /\ UNCHANGED sessionVars

GenFeature == RunGenerator("FLUX_FEATURE")
GenComparison == RunGenerator("FLUX_COMPARISON")
GenOpposition == RunGenerator("FLUX_OPPOSITION")
GenHierarchy == RunGenerator("FLUX_HIERARCHY")
GenCausal == RunGenerator("FLUX_CAUSAL")
GenSpatial == RunGenerator("FLUX_SPATIAL")
GenDeictic == RunGenerator("FLUX_DEICTIC")
GenConditional == RunGenerator("FLUX_CONDITIONAL")
GenAnalogy == RunGenerator("FLUX_ANALOGY")

NextGen ==
  \/ GenFeature
  \/ GenComparison
  \/ GenOpposition
  \/ GenHierarchy
  \/ GenCausal
  \/ GenSpatial
  \/ GenDeictic
  \/ GenConditional
  \/ GenAnalogy

SpecGen == InitGen /\ [][NextGen]_vars

\* ------------------------------- specification of the construction of a turn
\* the steps nextTurn takes from the active rating to the time limit of the
\* turn, one at a time: the tier of the rating, the generated stimulus, the
\* meta modifier, the complexity cost.  The ratings are those around the two
\* tier thresholds, the floor and the default
EloInputs == {0, DefaultElo, 1195, 1199, 1200, 1495, 1499, 1500, 1505}

\* the history item n back is of the family of the turn or, in a mixed
\* practice session without block switches, of another family
InitTurn ==
  /\ SessionInit
  /\ realElo = DefaultElo
  /\ gen \in {[pc |-> "elo", elo |-> e, type |-> t, prevResult |-> p, forceMatch |-> f,
                repair |-> r]
                : e \in EloInputs, t \in Range(allTypes), f \in BOOLEAN, r \in BOOLEAN,
                  p \in UNION {PrevInputs(u) : u \in Range(allTypes)}}
  /\ gen.prevResult \in PrevInputs(gen.type)

\* const tier = getTier(activeElo)
TierStep ==
  /\ gen.pc = "elo"
  /\ gen' = [pc |-> "tier", elo |-> gen.elo, type |-> gen.type,
             prevResult |-> gen.prevResult, forceMatch |-> gen.forceMatch,
             repair |-> gen.repair, tier |-> getTier(gen.elo)]
  /\ UNCHANGED sessionVars

\* switch(type) { ... generated = generateFlux...(prevResult, shouldMatch, tier) }
GenerateStep ==
  /\ gen.pc = "tier"
  /\ \E g \in SessionStimuli(gen.type, gen.prevResult, gen.forceMatch, gen.tier) :
       gen' = [pc |-> "generated", elo |-> gen.elo, type |-> gen.type,
               prevResult |-> gen.prevResult, forceMatch |-> gen.forceMatch,
               repair |-> gen.repair, tier |-> gen.tier, generated |-> g]
  /\ UNCHANGED sessionVars

\* turnData = generated; if (!isRepairMode) turnData = applyMetaModifiers(turnData, tier)
ModifyStep ==
  /\ gen.pc = "generated"
  /\ \E d \in MetaModified(gen.generated, gen.tier, gen.repair) :
       gen' = [pc |-> "turnData", elo |-> gen.elo, type |-> gen.type,
               prevResult |-> gen.prevResult, forceMatch |-> gen.forceMatch,
               repair |-> gen.repair, tier |-> gen.tier, generated |-> gen.generated,
               turnData |-> d]
  /\ UNCHANGED sessionVars

\* const cost = getComplexityCost(newItem.stimulus)
CostStep ==
  /\ gen.pc = "turnData"
  /\ gen' = [pc |-> "cost", elo |-> gen.elo, type |-> gen.type,
             prevResult |-> gen.prevResult, forceMatch |-> gen.forceMatch,
             repair |-> gen.repair, tier |-> gen.tier, generated |-> gen.generated,
             turnData |-> gen.turnData, cost |-> getComplexityCost(gen.turnData.stim)]
  /\ UNCHANGED sessionVars

NextTurnSteps ==
  \/ TierStep
  \/ GenerateStep
  \/ ModifyStep
  \/ CostStep

SpecTurn == InitTurn /\ [][NextTurnSteps]_vars

\* ------------------------------------ specification of the symbols of a stimulus
\* what a generator writes into the dictionary of its stimulus and which
\* symbols it displays on its two links: entries is the object literal handed
\* to shuffleEntries, links the two displayed symbols and pools the pool each
\* of them was drawn from (both empty for a family without synonym pools)
\* the icons the choice draws from (bounded by MaxIcons)
Icons == SubSeq(ICONS, 1, MaxIcons)

\* getRandomItem(ICONS.filter(i => ![...used].includes(i)))
pickIcon(used) == {i \in getRandomItem(Icons) : ~Includes(used, i)}

\* k successive choices c1 = pickIcon([]), c2 = pickIcon([c1]), ...
RECURSIVE IconSeqs(_)
IconSeqs(k) ==
  IF k = 0 THEN {<< >>}
  ELSE UNION {{Append(s, c) : c \in pickIcon(s)} : s \in IconSeqs(k - 1)}

NoLinks(entries) == [entries |-> entries, links |-> << >>, pools |-> << >>]

SecondLinkAny(pool2, first) == getRandomItem(pool2)

\* the second icon of Opposition and Hierarchy: the first one is filtered out
\* of the pool and the pool is put back if that emptied it
SecondLink(pool2, first) ==
  LET available == FilterNot(pool2, first)
  IN getRandomItem(IF Len(available) = 0 THEN pool2 ELSE available)

SymbolsFeature ==
  {NoLinks(<<<<c[1], "MATCH_COLOR">>, <<c[2], "MATCH_SHAPE">>, <<c[3], "EXACT_MATCH">>>>)
     : c \in CodeSeqs(3)}

colorNames == <<"RED", "BLUE", "GREEN", "PURPLE">>

Flip(rel) == IF rel = ">" THEN "<" ELSE ">"

SymbolsComparison(tier, result) ==
  LET rel1 == IF result = "GREATER" THEN ">" ELSE "<"
      rel2 == IF result = "GREATER" THEN "<" ELSE ">"
      meaningL(visualSwap) == IF ~visualSwap THEN rel1 ELSE rel2
      meaningR(visualSwap) == Flip(IF ~visualSwap THEN rel2 ELSE rel1)
      swaps == IF tier >= 2 THEN BOOLEAN ELSE {FALSE}
  IN IF tier >= 3
     THEN UNION {{NoLinks(<<<<i[1] \o " (" \o cL \o ")", meaningL(sw)>>,
                            <<i[2] \o " (" \o cR \o ")", meaningR(sw)>>>>)
                    : i \in IconSeqs(2), sw \in swaps,
                      cR \in getRandomItem(FilterNot(colorNames, cL))}
                   : cL \in getRandomItem(colorNames)}
     ELSE {NoLinks(<<<<i[1], ">">>, <<i[2], "<">>>>) : i \in IconSeqs(2)}

\* 3. Determine Logic Links
OppositionLinkTypes(result) ==
  IF result = "DIFFERENT"
  THEN {<<"NEUTRAL", "SAME">>, <<"NEUTRAL", "OPP">>, <<"SAME", "NEUTRAL">>, <<"OPP", "NEUTRAL">>}
  ELSE IF result = "SAME"
  THEN {<<"SAME", "SAME">>, <<"OPP", "OPP">>}
  ELSE {<<"SAME", "OPP">>, <<"OPP", "SAME">>}

SymbolsOpposition(tier, result) ==
  UNION {
    LET sameIcons == IF tier >= 3 THEN <<c[1], c[2]>> ELSE <<c[1]>>
        oppIcons == IF tier >= 3 THEN <<c[3], c[4]>> ELSE <<c[2]>>
        neutralIcons == IF tier >= 3 THEN <<c[5]>> ELSE <<c[3]>>
        getPool(type) == IF type = "NEUTRAL" THEN neutralIcons
                         ELSE IF type = "SAME" THEN sameIcons ELSE oppIcons
        entries == IF tier >= 3
                   THEN <<<<c[1], "IDENTICAL">>, <<c[2], "IDENTICAL">>, <<c[3], "INVERT">>,
                          <<c[4], "INVERT">>, <<c[5], "NEUTRAL">>>>
                   ELSE <<<<c[1], "IDENTICAL">>, <<c[2], "INVERT">>, <<c[3], "NEUTRAL">>>>
    IN {[entries |-> entries, links |-> <<icon1, icon2>>,
         pools |-> <<getPool(t[1]), getPool(t[2])>>]
          : <<t, icon1, icon2>> \in
              UNION {UNION {{<<t0, i1, i2>> : i2 \in SecondLink(getPool(t0[2]), i1)}
                               : i1 \in getRandomItem(getPool(t0[1]))}
                       : t0 \in OppositionLinkTypes(result)}}
    : c \in IconSeqs(IF tier >= 3 THEN 5 ELSE 3)}

\* the link types of Hierarchy: 1 for a parent link, -1 for a child link
HierarchyLinkTypes(tier, result) ==
  LET visuals == {result} \cup
                 (IF tier >= 2
                  THEN {IF result = "HIGHER" THEN "LOWER"
                        ELSE IF result = "LOWER" THEN "HIGHER" ELSE result}
                  ELSE {})
  IN UNION {IF v = "HIGHER" THEN {<<1, 1>>}
            ELSE IF v = "LOWER" THEN {<<-1, -1>>}
            ELSE {<<-1, 1>>, <<1, -1>>} : v \in visuals}

SymbolsHierarchy(tier, result) ==
  UNION {
    LET parentIcons == IF tier >= 3 THEN <<c[1], c[2]>> ELSE <<c[1]>>
        childIcons == IF tier >= 3 THEN <<c[3], c[4]>> ELSE <<c[2]>>
        getPool(type) == IF type = 1 THEN parentIcons ELSE childIcons
        entries == IF tier >= 3
                   THEN <<<<c[1], "PARENT_OF">>, <<c[2], "PARENT_OF">>,
                          <<c[3], "CHILD_OF">>, <<c[4], "CHILD_OF">>>>
                   ELSE <<<<c[1], "PARENT_OF">>, <<c[2], "CHILD_OF">>>>
    IN {[entries |-> entries, links |-> <<iconAB, iconBC>>,
         pools |-> <<getPool(t[1]), getPool(t[2])>>]
          : <<t, iconAB, iconBC>> \in
              UNION {UNION {{<<t0, i1, i2>> : i2 \in SecondLink(getPool(t0[2]), i1)}
                               : i1 \in getRandomItem(getPool(t0[1]))}
                       : t0 \in HierarchyLinkTypes(tier, result)}}
    : c \in IconSeqs(4)}

SymbolsCausal(tier) ==
  {NoLinks(CausalEntries(c, tier))
     : c \in CodeSeqs(IF tier >= 3 THEN 4 ELSE IF tier = 2 THEN 3 ELSE 2)}

SymbolsSpatial(tier) == {NoLinks(SpatialEntries(c, tier)) : c \in CodeSeqs(4)}

SymbolsDeictic ==
  {NoLinks(<<<<c[1], "ME (SAME)">>, <<c[2], "YOU (OPPOSITE)">>>>) : c \in CodeSeqs(2)}

SymbolsConditional ==
  {NoLinks(<<<<c[1], "KEEP_VALUE">>, <<c[2], "INVERT_VALUE">>,
             <<"(CIRCLE)", mapCircle>>,
             <<"(SQUARE)", IF mapCircle = "READ_TEXT" THEN "READ_INK" ELSE "READ_TEXT">>>>)
     : c \in CodeSeqs(2), mapCircle \in {"READ_TEXT", "READ_INK"}}

SymbolsAnalogy(result) ==
  UNION {
    LET causesPool == <<c[1], c[2]>>
        preventsPool == <<c[3], c[4]>>
        getPool(r) == IF r = "CAUSES" THEN causesPool ELSE preventsPool
        other(r) == IF r = "CAUSES" THEN "PREVENTS" ELSE "CAUSES"
    IN {[entries |-> <<<<c[1], "CAUSES">>, <<c[2], "CAUSES">>,
                       <<c[3], "PREVENTS">>, <<c[4], "PREVENTS">>>>,
         links |-> <<sym1, sym2>>,
         pools |-> <<getPool(rel1), getPool(IF result = "ANALOGOUS" THEN rel1 ELSE other(rel1))>>]
          : <<rel1, sym1, sym2>> \in
              UNION {UNION {{<<r, s1, s2>>
                               : s2 \in getRandomItem(FilterNot(
                                   getPool(IF result = "ANALOGOUS" THEN r ELSE other(r)), s1))}
                               : s1 \in getRandomItem(getPool(r))}
                       : r \in {"CAUSES", "PREVENTS"}}}
    : c \in CodeSeqs(4)}

\* the symbols of the stimulus a generator builds around a result
Symbols(type, tier, result) ==
  CASE type = "FLUX_FEATURE" -> SymbolsFeature
    [] type = "FLUX_COMPARISON" -> SymbolsComparison(tier, result)
    [] type = "FLUX_OPPOSITION" -> SymbolsOpposition(tier, result)
    [] type = "FLUX_HIERARCHY" -> SymbolsHierarchy(tier, result)
    [] type = "FLUX_CAUSAL" -> SymbolsCausal(tier)
    [] type = "FLUX_SPATIAL" -> SymbolsSpatial(tier)
    [] type = "FLUX_DEICTIC" -> SymbolsDeictic
    [] type = "FLUX_CONDITIONAL" -> SymbolsConditional
    [] type = "FLUX_ANALOGY" -> SymbolsAnalogy(result)

\* stim.dictionary['NIX'] = 'NOT (INVERT)': an assignment to the object
InjectNegationKey(entries) == Append(entries, <<"NIX", "NOT (INVERT)">>)

\* the results a generator declares at a tier
TierResults(type, tier) ==
  UNION {GeneratedResult(type, Null, f, tier) : f \in BOOLEAN}

InitSymbols ==
  /\ SessionInit
  /\ realElo = DefaultElo
  /\ gen \in {[pc |-> "result", type |-> t, tier |-> tr, result |-> r]
                : t \in Range(allTypes), tr \in 1..3,
                  r \in UNION {TierResults(u, k) : u \in Range(allTypes), k \in 1..3}}
  /\ gen.result \in TierResults(gen.type, gen.tier)

\* the generator builds the stimulus around the result it chose
BuildStimulus ==
  /\ gen.pc = "result"
  /\ \E y \in Symbols(gen.type, gen.tier, gen.result) :
       gen' = [pc |-> "stimulus", type |-> gen.type, tier |-> gen.tier,
               result |-> gen.result, entries |-> y.entries,
               dictionary |-> shuffleEntries(y.entries), links |-> y.links,
               pools |-> y.pools, isNegated |-> FALSE]
  /\ UNCHANGED sessionVars

\* applyMetaModifiers inverts the result of the stimulus
Negate ==
  /\ gen.pc = "stimulus"
  /\ gen.tier >= 3
  /\ HasOpposite(gen.result)
  /\ gen' = [gen EXCEPT !.pc = "negated",
                        !.entries = InjectNegationKey(gen.entries),
                        !.dictionary = shuffleEntries(InjectNegationKey(gen.entries)),
                        !.isNegated = TRUE]
  /\ UNCHANGED sessionVars

NextSymbols ==
  \/ BuildStimulus
  \/ Negate

SpecSymbols == InitSymbols /\ [][NextSymbols]_vars

\* ------------------------------------------------------------------ claims
\* the result vocabulary each family declares for a tier
DeclaredVocabulary(type, tier) ==
  CASE type = "FLUX_FEATURE" -> {"MATCH_COLOR", "MATCH_SHAPE", "EXACT", "NONE"}
    [] type = "FLUX_COMPARISON" -> {"GREATER", "LESSER"}
    [] type = "FLUX_OPPOSITION" -> {"SAME", "OPPOSITE", "DIFFERENT"}
    [] type = "FLUX_HIERARCHY" -> {"HIGHER", "LOWER", "SAME"}
    [] type = "FLUX_CAUSAL" -> IF tier >= 3 THEN {"RED", "BLUE"} ELSE {"TRIGGER", "BLOCK"}
    [] type = "FLUX_SPATIAL" -> IF tier >= 3
                                THEN {"NO_CHANGE", "90_RIGHT", "90_LEFT", "180_FLIP"}
                                ELSE {"NORTH_EAST", "NORTH_WEST", "SOUTH_EAST", "SOUTH_WEST"}
    [] type = "FLUX_DEICTIC" -> {"LEFT", "RIGHT", "FRONT", "BACK"}
    [] type = "FLUX_CONDITIONAL" -> {"RED", "BLUE"}
    [] type = "FLUX_ANALOGY" -> {"ANALOGOUS", "NON_ANALOGOUS"}

GenDone(type) == gen.pc = "done" /\ gen.type = type

\* what a solver reads off a Causal stimulus: the two operators are looked up
\* in the dictionary and applied to the node colours.  Tier 2: a BLOCK_x gate
\* stops a signal of colour x, a stopped signal never reaches the second gate.
\* Tier 3: INFECT_MATCH succeeds on equal colours, INFECT_DIFF on different
\* ones, and a success flips the colour of the target node.
SolveCausal(out) ==
  LET m1 == out.dictionary[out.visuals.ops[1]]
      m2 == out.dictionary[out.visuals.ops[2]]
      col == out.visuals.nodeColors
      flip(x) == IF x = "RED" THEN "BLUE" ELSE "RED"
      infect(m, s, d) == IF (m = "INFECT_MATCH" /\ s = d) \/ (m = "INFECT_DIFF" /\ s # d)
                         THEN flip(d) ELSE d
      passes(m, x) == ~(m = "BLOCK_RED" /\ x = "RED") /\ ~(m = "BLOCK_BLUE" /\ x = "BLUE")
  IN IF out.tier >= 3
     THEN infect(m2, infect(m1, col[1], col[2]), col[3])
     ELSE IF passes(m1, col[1]) /\ passes(m2, col[2]) THEN "TRIGGER" ELSE "BLOCK"

\* C1: at tiers 2 and 3 the operator pair of a Causal stimulus, simulated with
\* the gate / viral semantics, yields the declared result, whether the pair
\* came from the search or from the fallback.
C1_CausalOpsReproduceResult ==
  (GenDone("FLUX_CAUSAL") /\ gen.tier >= 2) => SolveCausal(gen.out) = gen.out.result

\* what a solver reads off a Spatial stimulus: the moves are looked up in the
\* dictionary and walked from the origin (0,0) facing north
RECURSIVE WalkMoves(_, _, _)
WalkMoves(sequence, dictionary, k) ==
  IF k = 0 THEN [x |-> 0, y |-> 0, heading |-> 0]
  ELSE LET p == WalkMoves(sequence, dictionary, k - 1)
           m == dictionary[sequence[k]]
           dx(h) == IF h = 1 THEN 1 ELSE IF h = 3 THEN -1 ELSE 0
           dy(h) == IF h = 0 THEN 1 ELSE IF h = 2 THEN -1 ELSE 0
       IN CASE m = "NORTH" -> [p EXCEPT !.y = p.y + 1]
            [] m = "SOUTH" -> [p EXCEPT !.y = p.y - 1]
            [] m = "EAST" -> [p EXCEPT !.x = p.x + 1]
            [] m = "WEST" -> [p EXCEPT !.x = p.x - 1]
            [] m = "FORWARD" -> [p EXCEPT !.x = p.x + dx(p.heading), !.y = p.y + dy(p.heading)]
            [] m = "TURN_RIGHT" -> [p EXCEPT !.heading = (p.heading + 1) % 4]
            [] m = "TURN_LEFT" -> [p EXCEPT !.heading = (p.heading + 3) % 4]
            [] m = "U_TURN" -> [p EXCEPT !.heading = (p.heading + 2) % 4]

SolveSpatial(out) ==
  LET p == WalkMoves(out.visuals.sequence, out.dictionary, Len(out.visuals.sequence))
  IN IF out.tier >= 3
     THEN CASE p.heading = 0 -> "NO_CHANGE"
            [] p.heading = 1 -> "90_RIGHT"
            [] p.heading = 2 -> "180_FLIP"
            [] p.heading = 3 -> "90_LEFT"
     ELSE IF p.x > 0 /\ p.y > 0 THEN "NORTH_EAST"
          ELSE IF p.x < 0 /\ p.y > 0 THEN "NORTH_WEST"
          ELSE IF p.x > 0 /\ p.y < 0 THEN "SOUTH_EAST"
          ELSE IF p.x < 0 /\ p.y < 0 THEN "SOUTH_WEST"
          ELSE "ON_AXIS"

\* C2: at every tier the move sequence of a Spatial stimulus, walked from the
\* origin facing north with the dictionary's meanings, yields the declared
\* result, for sequences found by the search and for the fallback alike.
C2_SpatialMovesReproduceResult ==
  GenDone("FLUX_SPATIAL") => SolveSpatial(gen.out) = gen.out.result

\* a tier-2 stimulus whose target no 3-step sequence reaches: the fallback
C2_Witness ==
  /\ GenDone("FLUX_SPATIAL")
  /\ gen.tier = 2
  /\ ~gen.out.found
  /\ gen.out.result = "SOUTH_EAST"
  /\ Len(gen.out.visuals.sequence) = 4

\* C3: with forceMatch and a prevResult in the family's vocabulary for the
\* tier, the generated result equals prevResult (all nine generators).
C3_MatchForcing ==
  (gen.pc = "done" /\ gen.forceMatch
     /\ gen.prevResult \in DeclaredVocabulary(gen.type, gen.tier))
  => gen.out.result = gen.prevResult

C3_Witness ==
  /\ GenDone("FLUX_OPPOSITION")
  /\ gen.forceMatch
  /\ gen.prevResult = "DIFFERENT"
  /\ gen.out.result = "DIFFERENT"

\* C4: without forceMatch and with a prevResult in the family's vocabulary for
\* the tier, the generated result differs from prevResult (all nine generators).
C4_AntiRepeat ==
  (gen.pc = "done" /\ ~gen.forceMatch
     /\ gen.prevResult \in DeclaredVocabulary(gen.type, gen.tier))
  => gen.out.result # gen.prevResult

C4_Witness ==
  /\ GenDone("FLUX_COMPARISON")
  /\ ~gen.forceMatch
  /\ gen.prevResult = "GREATER"
  /\ gen.out.result = "LESSER"

\* C5: whatever prevResult and forceMatch are, the generated result is in the
\* family's declared vocabulary for the tier.
C5_VocabularyClosure ==
  gen.pc = "done" => gen.out.result \in DeclaredVocabulary(gen.type, gen.tier)

\* a forced match on a prevResult of another tier's vocabulary
C5_Witness ==
  /\ GenDone("FLUX_SPATIAL")
  /\ gen.tier = 3
  /\ gen.forceMatch
  /\ gen.prevResult = "NORTH_EAST"
  /\ gen.out.result \in {"NO_CHANGE", "90_RIGHT", "90_LEFT", "180_FLIP"}

\* ------------------------------------------------- claims about the session
\* a step that scores a turn prepends one entry to the log
Scored == Len(logs') = Len(logs) + 1

\* C6: a turn scored in normal mode is judged against the item N places before
\* the newest one of the rolling history: target H[len-1-N] and current H[len-1]
\* (indexed from 0), declared match = equal results, and it is correct exactly
\* when it did not time out and the answer equals the declared match
C6_NBackJudge ==
  [][(Scored /\ ~isRepairMode) =>
       LET e == logs'[1]
           N == config.nBackLevel
           len == Len(history)
       IN /\ len - 1 - N >= 0
          /\ e.nBackItem = history[(len - 1 - N) + 1]
          /\ e.currentItem = history[(len - 1) + 1]
          /\ e.isMatch = (e.currentItem.result = e.nBackItem.result)
          /\ e.isCorrect = (~e.timedOut /\ e.userAnswer = e.isMatch)]_vars

\* N = 2, results A, B, A, A: the target is B, no match, "match" was answered
\* and scored incorrect
C6_Witness ==
  /\ config.nBackLevel = 2
  /\ Len(history) = 4
  /\ history[1].result = history[3].result
  /\ history[3].result = history[4].result
  /\ history[2].result # history[1].result
  /\ phase = "FEEDBACK"
  /\ Len(logs) > 0
  /\ logs[1].id = turnCount
  /\ logs[1].nBackItem = history[2]
  /\ logs[1].userAnswer
  /\ ~logs[1].timedOut
  /\ ~logs[1].isMatch
  /\ ~logs[1].isCorrect

\* C8: the active and the persisted rating are never negative; a correct
\* answer scored in normal mode adds exactly 5 and an incorrect one leaves
\* max(0, rating - 5) (the persisted rating follows outside practice mode)
C8_RatingBounds ==
  [][/\ realElo' >= 0
     /\ activeElo' >= 0
     /\ (Scored /\ ~isRepairMode) =>
          LET e == logs'[1]
              after(r) == IF e.isCorrect THEN r + 5 ELSE Max(0, r - 5)
          IN /\ activeElo' = after(activeElo)
             /\ ~config.isPracticeMode => realElo' = after(realElo)]_vars

\* from rating 0: an incorrect answer leaves 0, a correct one gives 5, and an
\* incorrect one gives 0 again
C8_Witness ==
  /\ ~config.isPracticeMode
  /\ Len(logs) = 3
  /\ \A i \in 1..3 : ~logs[i].isRepair
  /\ logs[3].elo = 0 /\ ~logs[3].isCorrect
  /\ logs[2].elo = 0 /\ logs[2].isCorrect
  /\ logs[1].elo = 5 /\ ~logs[1].isCorrect
  /\ activeElo = 0
  /\ realElo = 0

\* C9: while repair is inactive the failure counter is below 3; an incorrect
\* answer scored in normal mode adds 1 to it and a correct one resets it, and
\* no other step changes it; the third consecutive failure activates repair,
\* locks the family of the failed turn's stimulus and sets the streak to 0,
\* and nothing else activates repair
C9_RepairEntry ==
  [][~isRepairMode =>
       /\ consecutiveFailures < 3
       /\ IF Scored
          THEN LET e == logs'[1]
               IN IF e.isCorrect
                  THEN consecutiveFailures' = 0 /\ ~isRepairMode'
                  ELSE /\ consecutiveFailures' = consecutiveFailures + 1
                       /\ IF consecutiveFailures' = 3
                          THEN /\ isRepairMode'
                               /\ repairTargetType' = e.currentItem.stimulus.type
                               /\ repairSuccesses' = 0
                          ELSE ~isRepairMode'
          ELSE consecutiveFailures' = consecutiveFailures /\ ~isRepairMode']_vars

\* repair has just been entered: the log holds three consecutive failures of
\* the first session, the last one a timeout, and the family of that turn is
\* locked
C9_Witness == RepairEntryState

\* C7: when the countdown of a judged turn (phase PLAYING, or any turn of
\* repair mode) expires, the turn is scored incorrect whatever the declared
\* match is: in normal mode the failure counter goes up by 1 and the rating
\* goes down to max(0, rating - 5), in repair mode the streak is reset
C7_TimeoutScoredIncorrect ==
  [][(Timeout /\ (phase = "PLAYING" \/ isRepairMode)) =>
       /\ Scored
       /\ logs'[1].timedOut
       /\ ~logs'[1].isCorrect
       /\ IF isRepairMode
          THEN repairSuccesses' = 0
          ELSE /\ consecutiveFailures' = consecutiveFailures + 1
               /\ activeElo' = Max(0, activeElo - 5)]_vars

\* C10: while repair is active the streak is below 3 and only a scored answer
\* changes the repair state; a correct answer adds 1 to the streak and the
\* third in a row ends repair, clears the locked family and resets the failure
\* counter and the streak; an incorrect or timed-out answer resets the streak
C10_RepairExit ==
  [][isRepairMode =>
       /\ repairSuccesses < 3
       /\ IF Scored
          THEN LET e == logs'[1]
               IN /\ e.isRepair
                  /\ IF e.isCorrect /\ repairSuccesses + 1 = 3
                     THEN /\ ~isRepairMode'
                          /\ repairTargetType' = Null
                          /\ consecutiveFailures' = 0
                          /\ repairSuccesses' = 0
                     ELSE /\ repairSuccesses' = IF e.isCorrect THEN repairSuccesses + 1 ELSE 0
                          /\ UNCHANGED <<isRepairMode, repairTargetType, consecutiveFailures>>
          ELSE UNCHANGED <<isRepairMode, repairTargetType, consecutiveFailures,
                           repairSuccesses>>]_vars

\* repair has just been left on the third correct repair answer in a row
C10_Witness ==
  /\ ~isRepairMode
  /\ repairTargetType = Null
  /\ consecutiveFailures = 0
  /\ repairSuccesses = 0
  /\ phase = "FEEDBACK"
  /\ Len(logs) >= 3
  /\ \A i \in 1..3 : logs[i].isRepair /\ logs[i].isCorrect
  /\ logs[1].id = turnCount

\* C11: in every state the failure counter is at least 3 exactly when repair
\* mode is active, and repair mode is active exactly when a repair family is
\* locked
C11_RepairFlagsAgree ==
  /\ (consecutiveFailures >= 3) = isRepairMode
  /\ isRepairMode = (repairTargetType # Null)

\* in the middle of a repair run, two correct answers in: the counter still
\* stands at 3 and the family is still locked
C11_Witness ==
  /\ isRepairMode
  /\ repairSuccesses = 2
  /\ consecutiveFailures = 3
  /\ repairTargetType = "FLUX_COMPARISON"
  /\ phase = "PLAYING"

\* ----------------------------------------------- claims about the scheduler
\* C12 as stated: every 9 consecutive block switches select each of the nine
\* families exactly once
C12_AnyNineSwitchesCoverAll ==
  \A i \in 1..(Len(switches) - 8) : {switches[j] : j \in i..(i + 8)} = Range(allTypes)

\* C12 amended: the 9 block switches that drain one bag (the switches 9k+1 to
\* 9k+9 of the run) select each of the nine families exactly once
C12_EachBagCoversAll ==
  \A k \in 0..((Len(switches) \div 9) - 1) :
    {switches[9 * k + j] : j \in 1..9} = Range(allTypes)

\* the first bag has been drained and the first draw of the second bag repeats
\* a family drawn less than 9 switches before
C12_Witness ==
  /\ Len(switches) = 10
  /\ {switches[j] : j \in 1..9} = Range(allTypes)
  /\ switches[10] \in {switches[j] : j \in 2..9}

\* C13: no block switch selects the family of the block that was active before
\* it, the first switch after a refill of the bag included
C13_NoImmediateRepeat ==
  [][Len(switches') = Len(switches) + 1 =>
       /\ blockState'.type = switches'[Len(switches')]
       /\ blockState'.type # blockState.type]_vars

\* the bag has just been refilled with the finished block's family on top, and
\* the switch drew another family
C13_Witness ==
  /\ Len(switches) = 10
  /\ Len(frameQueue) = 8
  /\ frameQueue[8] = switches[9]
  /\ blockState.type = switches[10]
  /\ switches[10] # switches[9]

\* C15: a turn of the scheduler switches block exactly when no turn remains;
\* a block switch sets the counter to nBackLevel*3 + v, v in 3..8, and counts
\* the switch turn off it; every other turn stays in the block and counts one
\* more turn off, so the block lasts nBackLevel*3 + v turns
C15_RunLength ==
  [][LET n == config.nBackLevel
         isSwitch == Len(switches') = Len(switches) + 1
     IN /\ blockState.remaining >= 0
        /\ isSwitch = (blockState.remaining = 0)
        /\ IF isSwitch
           THEN \E v \in 3..8 : blockState'.remaining = (n * 3 + v) - 1
           ELSE /\ blockState'.remaining = blockState.remaining - 1
                /\ blockState'.type = blockState.type]_vars

\* the second block of a run at N = 2 has used up its 2*3 + 3 turns
C15_Witness ==
  /\ config.nBackLevel = 2
  /\ Len(switches) = 2
  /\ blockState.type = switches[2]
  /\ blockState.remaining = 0

\* C14: a turn on which the scheduler switches block leaves the phase WARMUP
\* and the rolling history holding the new item alone, and its generator was
\* given no previous result; and a judged turn never compares two items whose
\* families the scheduler chose and that differ in family
C14_BlockSwitchEffect ==
  [][/\ Len(switches') = Len(switches) + 1 =>
          /\ ~isRepairMode
          /\ phase' = "WARMUP"
          /\ history' = <<currentItem'>>
          /\ currentItem'.stimulus.type = switches'[Len(switches')]
          /\ lastTurn' = [isBlockSwitch |-> TRUE, prevResult |-> Null, prevBy |-> Null,
                 makeMatch |-> FALSE, shouldMatch |-> FALSE]
     /\ (Scored /\ ~logs'[1].isRepair) =>
          LET k == Len(history)
              n == config.nBackLevel
          IN /\ logs'[1].currentItem = history[k]
             /\ logs'[1].nBackItem = history[k - n]
             /\ (produced[k].by = "scheduler" /\ produced[k - n].by = "scheduler")
                  => produced[k].type = produced[k - n].type]_vars

\* a block switch in mid-session has cut the history down to its item, and
\* the turn after it has been judged against that item
C14_Witness ==
  /\ Len(switches) = 2
  /\ phase = "FEEDBACK"
  /\ Len(history) = 2
  /\ produced = <<[by |-> "scheduler", type |-> "FLUX_OPPOSITION"],
                  [by |-> "scheduler", type |-> "FLUX_OPPOSITION"]>>
  /\ Len(logs) = 2
  /\ logs[1].nBackItem = history[1]
  /\ logs[2].currentItem.stimulus.type = "FLUX_COMPARISON"

\* C16: in repair mode a step that generates a turn or scores an answer
\* leaves the block, its counter of remaining turns, the bag and both ratings
\* as they are; the failure that starts repair mode is scored with the rating
\* update of an incorrect answer (the persisted rating is left alone in
\* practice mode)
C16_RepairFreezesSchedulerAndRating ==
  [][/\ (isRepairMode /\ (turns' = turns + 1 \/ Scored)) =>
          UNCHANGED <<blockState, frameQueue, realElo, activeElo>>
     /\ (~isRepairMode /\ isRepairMode') =>
          /\ Scored
          /\ ~logs'[1].isCorrect
          /\ logs'[1].elo = activeElo
          /\ IF config.isPracticeMode
             THEN realElo' = realElo /\ activeElo' = Max(0, activeElo - 5)
             ELSE realElo' = Max(0, realElo - 5) /\ activeElo' = realElo']_vars

\* repair mode was entered from a rating of 990 and left again after three
\* turns: the rating is the one the failure gave, the block is untouched
C16_Witness ==
  /\ ~isRepairMode
  /\ Len(logs) = 6
  /\ logs[1].isRepair /\ logs[2].isRepair /\ logs[3].isRepair
  /\ ~logs[4].isRepair /\ logs[4].elo = DefaultElo - 10
  /\ realElo = DefaultElo - 15
  /\ activeElo = DefaultElo - 15
  /\ blockState = [type |-> "FLUX_COMPARISON", remaining |-> 2]
  /\ Len(frameQueue) = 8

\* C17: once repair mode is left the rolling history holds no item that was
\* generated in repair mode, so that no N-back target is such an item, and no
\* turn takes its previous result from such an item
C17_HistoryClearedOfRepairItems ==
  /\ ~isRepairMode => \A i \in 1..Len(produced) : produced[i].by # "repair"
  /\ lastTurn.prevBy # "repair"

\* a turn that is judged when answered is waiting for its answer
JudgedTurnPending ==
  /\ currentItem # NoItem
  /\ \/ phase = "PLAYING"
     \/ isRepairMode /\ phase \in {"WARMUP", "PLAYING"}

\* C18: no turn is generated while a judged turn waits for its answer; a
\* step that scores a turn prepends its log entry and leaves the phase
\* FEEDBACK; and from FEEDBACK a turn is generated by CONTINUE only
C18_StrictSequencing ==
  [][/\ turns' = turns + 1 => ~JudgedTurnPending
     /\ Scored => /\ phase' = "FEEDBACK"
                  /\ logs'[1].id = turnCount
                  /\ logs'[1].currentItem = currentItem
     /\ (phase = "FEEDBACK" /\ turns' = turns + 1) => handleContinue]_vars

\* C19: in the phases IDLE and FEEDBACK no step has the effect of an answer
\* (no log entry is added, no counter of failures or repair successes and no
\* repair flag changes, a rating changes only by a reset or a restart and a
\* turn is generated only by INITIALIZE or CONTINUE); and every step taken
\* while a turn is live ends that turn (the phase becomes FEEDBACK or IDLE, or
\* the next turn is generated), so that no second answer reaches it
C19_AnswerIntake ==
  [][/\ phase \in {"IDLE", "FEEDBACK"} =>
          /\ Len(logs') <= Len(logs)
          /\ consecutiveFailures' = consecutiveFailures
          /\ repairSuccesses' = repairSuccesses
          /\ isRepairMode' = isRepairMode
          /\ (realElo' # realElo \/ activeElo' # activeElo) => (resetRealElo \/ saveSettings)
          /\ turns' = turns + 1 => (init \/ handleContinue)
     /\ phase \in {"WARMUP", "PLAYING"} =>
          \/ phase' \in {"FEEDBACK", "IDLE"}
          \/ turns' = turns + 1 /\ turnCount' = turnCount + 1]_vars

\* a session was stopped with an item on display: no turn is pending
C19_Witness == BlockLateState

\* C20: a countdown runs out in the phases WARMUP and PLAYING only (a log
\* entry marked as timed out is written from PLAYING only, with time left on
\* the countdown); every turn starts with the full countdown of its own item,
\* or with none when the expiry of the turn before generated it; and no turn
\* is scored twice: the log entries bear different turn numbers
C20_TimerCancellation ==
  [][/\ (timer > 0 /\ timer' = 0) => phase \in {"WARMUP", "PLAYING"}
     /\ (Scored /\ logs'[1].timedOut) => (phase = "PLAYING" /\ timer > 0 /\ timer' = 0)
     /\ turns' = turns + 1 =>
          \/ timer' = TurnTime(currentItem'.stimulus, activeElo, config.baseTimer)
          \/ timer' = 0 /\ timer > 0 /\ phase \in {"WARMUP", "PLAYING"}
     /\ \A i, j \in 1..Len(logs') : logs'[i].id = logs'[j].id => i = j]_vars

\* two turns were scored, one answer each, and the countdown of the next
\* turn is running
C20_Witness == RepairPendingState

\* C21: with the infinite timer (baseTimer = -1) every generated turn gets
\* the fixed countdown value of 100 s instead of a computed budget, the
\* countdown never runs out, and no log entry is marked as timed out
C21_InfiniteTimer ==
  [][config.baseTimer = -1 =>
       /\ turns' = turns + 1 => timer' = 10000
       /\ ~(timer > 0 /\ timer' = 0)
       /\ Scored => ~logs'[1].timedOut]_vars

\* a session with the infinite timer: a warm-up turn and a judged turn, each
\* ended by the user's answer
C21_Witness ==
  /\ config.baseTimer = -1
  /\ phase = "FEEDBACK"
  /\ timer = 10000
  /\ Len(logs) = 1
  /\ ~logs[1].timedOut
  /\ Len(history) = 2

\* the stored configuration is not one the persistence effect writes
ConfigCorrupt ==
  /\ Saved(gen.config)
  /\ \A c \in SettingsInputs : gen.config.text # stringify(c)

\* the stored rating is not the decimal text of a rating
RatingCorrupt ==
  /\ Saved(gen.elo)
  /\ \E i \in DOMAIN gen.elo.text : ~IsDigit(gen.elo.text[i])

C23_PracticeFreezesPersistedRating ==
  [][(config.isPracticeMode /\ (Scored \/ turns' = turns + 1)) => realElo' = realElo]_vars

\* a practice session: a failed turn has moved the active rating and left
\* the persisted one
C23_Witness ==
  /\ config.isPracticeMode
  /\ phase = "FEEDBACK"
  /\ Len(logs) = 1
  /\ ~logs[1].isCorrect
  /\ realElo = DefaultElo
  /\ activeElo = DefaultElo - 5

\* C24: outside practice mode the active rating equals the persisted rating
C24_RatingsInSync == ~config.isPracticeMode => activeElo = realElo

\* outside practice mode a failed turn has moved both ratings
C24_Witness ==
  /\ ~config.isPracticeMode
  /\ phase = "FEEDBACK"
  /\ Len(logs) = 1
  /\ ~logs[1].isCorrect
  /\ logs[1].elo = DefaultElo
  /\ realElo = DefaultElo - 5
  /\ activeElo = DefaultElo - 5

\* C25: the family of each generated turn has exactly one source: the repair
\* family under the repair lock, else the practice family under a practice
\* lock other than MIXED, else the block of the scheduler; the block and the
\* bag are left alone in the first two cases
C25_FamilySourcePrecedence ==
  [][turns' = turns + 1 =>
       LET type == currentItem'.stimulus.type
           repairLocked == isRepairMode /\ repairTargetType # Null
           practiceLocked == /\ config.isPracticeMode
                             /\ config.practiceType # Null
                             /\ config.practiceType # "MIXED"
       IN IF repairLocked
          THEN /\ type = repairTargetType
               /\ UNCHANGED <<blockState, frameQueue>>
          ELSE IF practiceLocked
          THEN /\ type = config.practiceType
               /\ UNCHANGED <<blockState, frameQueue>>
          ELSE /\ type = blockState'.type
               /\ blockState' # blockState]_vars

\* a repair turn generated while the practice lock names another family
C25_Witness ==
  /\ isRepairMode
  /\ repairTargetType # Null
  /\ config.isPracticeMode
  /\ config.practiceType \notin {Null, "MIXED", repairTargetType}
  /\ currentItem # NoItem
  /\ currentItem.stimulus.type = repairTargetType
  /\ produced # << >>
  /\ produced[Len(produced)].by = "repair"

\* C26: the turn is negated only at tier 3, outside repair mode, for a result
\* with an entry in the opposites table; a negated turn has the key NIX in
\* its dictionary and the table's value as its result; a turn that is not
\* negated, so every turn of tiers 1 and 2 and every repair turn, is the
\* generated turn unchanged
C26_NegationOnlyAtTierThree ==
  gen.pc \in {"turnData", "cost"} =>
    LET g == gen.generated
        d == gen.turnData
    IN /\ d.stim.isNegated =>
            /\ gen.tier = 3
            /\ ~gen.repair
            /\ \E i \in DOMAIN opposites :
                 opposites[i][1] = g.result /\ opposites[i][2] = d.result
            /\ "NIX" \in d.stim.dictionary
       /\ ~d.stim.isNegated => d = g /\ "NIX" \notin d.stim.dictionary
       /\ (gen.tier < 3 \/ gen.repair) => ~d.stim.isNegated /\ d.result = g.result

\* a tier 3 Feature turn generated as EXACT and negated to NONE
C26_Witness ==
  /\ gen.pc = "cost"
  /\ gen.tier = 3
  /\ gen.generated.result = "EXACT"
  /\ gen.turnData.stim.isNegated
  /\ gen.turnData.result = "NONE"

\* C28: getTier is 1 below 1200, 2 from 1200 to 1499 and 3 from 1500 on
C28_TierThresholds ==
  gen.pc # "elo" =>
    /\ gen.tier \in {1, 2, 3}
    /\ gen.tier = 1 <=> gen.elo < 1200
    /\ gen.tier = 2 <=> (gen.elo >= 1200 /\ gen.elo <= 1499)
    /\ gen.tier = 3 <=> gen.elo >= 1500
    /\ gen.elo = 1199 => gen.tier = 1
    /\ gen.elo = 1200 => gen.tier = 2
    /\ gen.elo = 1499 => gen.tier = 2
    /\ gen.elo = 1500 => gen.tier = 3

\* the rating 1200 has been given tier 2
C28_Witness == gen.pc = "tier" /\ gen.elo = 1200 /\ gen.tier = 2

\* C30: the complexity cost is 4 for a negated stimulus and otherwise the
\* cost of the family (Causal by tier, Deictic by time frame); it lies in 1..6
C30_ComplexityCost ==
  gen.pc = "cost" =>
    LET stim == gen.turnData.stim
        type == stim.type
    IN /\ gen.cost \in 1..6
       /\ stim.isNegated => gen.cost = 4
       /\ ~stim.isNegated =>
            /\ type = "FLUX_FEATURE" => gen.cost = 1
            /\ type = "FLUX_COMPARISON" => gen.cost = 2
            /\ type = "FLUX_OPPOSITION" => gen.cost = 2
            /\ type = "FLUX_HIERARCHY" => gen.cost = 3
            /\ type = "FLUX_SPATIAL" => gen.cost = 3
            /\ type = "FLUX_CAUSAL" => gen.cost = (IF gen.tier = 3 THEN 4 ELSE 3)
            /\ type = "FLUX_DEICTIC" => gen.cost = (IF stim.timeFrame = "THEN" THEN 6 ELSE 4)
            /\ type = "FLUX_CONDITIONAL" => gen.cost = 5
            /\ type = "FLUX_ANALOGY" => gen.cost = 5

\* a negated Deictic turn of the time frame THEN costs 4
C30_Witness ==
  /\ gen.pc = "cost"
  /\ gen.type = "FLUX_DEICTIC"
  /\ gen.turnData.stim.timeFrame = "THEN"
  /\ gen.turnData.stim.isNegated
  /\ gen.cost = 4

\* C27: a step that scores a turn (it enters FEEDBACK) puts exactly one entry
\* in front of the log and keeps the entries there were, in their order; the
\* log changes in no other way but by being emptied, which INITIALIZE and
\* saving the settings do and nothing else does
C27_LogIsPrependOnly ==
  [][/\ (phase # "FEEDBACK" /\ phase' = "FEEDBACK") =>
          Len(logs') = Len(logs) + 1 /\ Tail(logs') = logs
     /\ logs' # logs =>
          \/ Len(logs') = Len(logs) + 1 /\ Tail(logs') = logs /\ phase' = "FEEDBACK"
          \/ logs' = << >> /\ (init \/ saveSettings)
     /\ (init \/ saveSettings) => logs' = << >>]_vars

\* a second turn has been scored: the log holds its entry before that of the
\* first
C27_Witness ==
  /\ phase = "FEEDBACK"
  /\ Len(logs) = 2
  /\ logs[1].id > logs[2].id

\* C29: the target result shown in a repair turn is the result of the turn
\* when makeMatch was drawn and otherwise another result of the vocabulary of
\* the locked family, so that it equals the result exactly when makeMatch was
\* drawn; the answer to a repair turn is scored against that equality alone,
\* with no item n turns back
C29_RepairClaim ==
  [][/\ (turns' = turns + 1 /\ isRepairMode) =>
          LET result == currentItem'.result
              target == repairTargetResult'
          IN /\ lastTurn'.makeMatch => target = result
             /\ ~lastTurn'.makeMatch =>
                  /\ target # result
                  /\ target \in Range(possibleResults(repairTargetType))
             /\ target = result <=> lastTurn'.makeMatch
     /\ (Scored /\ logs'[1].isRepair) =>
          LET e == logs'[1]
          IN /\ e.currentItem = currentItem
             /\ e.nBackItem = NoItem
             /\ e.isMatch <=> lastTurn.makeMatch
             /\ e.isMatch <=> currentItem.result = repairTargetResult
             /\ e.isCorrect <=> (~e.timedOut /\ (e.userAnswer <=> e.isMatch))]_vars

\* a repair turn whose target was a distractor has been answered "true" and
\* scored as a failure
C29_Witness ==
  /\ isRepairMode
  /\ phase = "FEEDBACK"
  /\ logs # << >>
  /\ logs[1].isRepair
  /\ ~lastTurn.makeMatch
  /\ currentItem.result # repairTargetResult
  /\ logs[1].userAnswer
  /\ ~logs[1].timedOut
  /\ ~logs[1].isCorrect

\* C31: in the dictionary of a generated stimulus, before and after the
\* negation key is injected, no key is written twice; where the two links of
\* a stimulus are drawn from pools of two symbols (Opposition and Hierarchy
\* at tier 3, Analogy at every tier) the two displayed symbols differ, and
\* one symbol is displayed on both links only where the pool holds one symbol
C31_SymbolsDistinct ==
  gen.pc \in {"stimulus", "negated"} =>
    /\ \A i, j \in DOMAIN gen.entries : gen.entries[i][1] = gen.entries[j][1] => i = j
    /\ Cardinality(DOMAIN gen.dictionary) = Len(gen.entries)
    /\ gen.pc = "negated" => "NIX" \in DOMAIN gen.dictionary
    /\ gen.links # << >> =>
         /\ (Len(gen.pools[1]) = 2 /\ Len(gen.pools[2]) = 2) => gen.links[1] # gen.links[2]
         /\ gen.links[1] = gen.links[2] =>
              (gen.pools[1] = gen.pools[2] /\ Len(gen.pools[1]) = 1)
    /\ ((gen.type \in {"FLUX_OPPOSITION", "FLUX_HIERARCHY"} /\ gen.tier = 3)
        \/ gen.type = "FLUX_ANALOGY") =>
         /\ Len(gen.links) = 2
         /\ gen.links[1] # gen.links[2]

\* a tier 3 Hierarchy stimulus with two parent links, shown with the two
\* synonyms of PARENT_OF, after the negation key was injected
C31_Witness ==
  /\ gen.pc = "negated"
  /\ gen.type = "FLUX_HIERARCHY"
  /\ gen.pools[1] = gen.pools[2]
  /\ gen.links[1] # gen.links[2]
  /\ Cardinality(DOMAIN gen.dictionary) = 5

C33_PhaseMatchesHistory ==
  /\ (~isRepairMode /\ phase = "PLAYING") => Len(history) > config.nBackLevel
  /\ phase = "WARMUP" => Len(history) <= config.nBackLevel

\* C34: in scheduled play outside repair mode, on the k-th turn of an
\* uninterrupted run of turns that began with a block switch, the phase is
\* WARMUP exactly when k <= N, so the turn N + 1 is a PLAYING turn; it has
\* more than N items behind it, and the block, of at least 3N + 3 turns, has
\* not ended before it
C34_WarmupAfterSwitch ==
  (/\ turns >= 1
   /\ Len(switches) = 2
   /\ Len(produced) = turns
   /\ produced[1].by = "scheduler"
   /\ ~isRepairMode
   /\ phase \in {"WARMUP", "PLAYING"}) =>
    /\ phase = "WARMUP" <=> turns <= config.nBackLevel
    /\ phase = "PLAYING" => Len(history) > config.nBackLevel
    /\ blockState.remaining + turns >= (3 * config.nBackLevel) + 3

\* N = 2: the third turn after the switch is the first PLAYING turn
C34_Witness ==
  /\ config.nBackLevel = 2
  /\ turns = 3
  /\ Len(switches) = 2
  /\ Len(produced) = 3
  /\ ~isRepairMode
  /\ phase = "PLAYING"
  /\ Len(history) = 3

\* C35: outside repair mode an answer to a WARMUP turn, or the expiry of its
\* countdown, generates the next turn and leaves the log, both ratings, the
\* failure counter and the repair state as they were; the phase after it is
\* not FEEDBACK
C35_WarmupNeverScored ==
  [][(phase = "WARMUP" /\ ~isRepairMode /\ (Answer \/ Timeout)) =>
       /\ turns' = turns + 1
       /\ phase' \in {"WARMUP", "PLAYING"}
       /\ UNCHANGED <<logs, realElo, activeElo, consecutiveFailures, isRepairMode,
                      repairSuccesses, repairTargetType, repairTargetResult>>]_vars

\* N = 2: the warm-up turn of a block switch has been answered and the
\* second warm-up turn is on, with nothing logged
C35_Witness ==
  /\ config.nBackLevel = 2
  /\ ~isRepairMode
  /\ phase = "WARMUP"
  /\ lastTurn.isBlockSwitch = FALSE
  /\ Len(history) = 2
  /\ turns = 2
  /\ logs = << >>
  /\ consecutiveFailures = 0

\* ------------------------------------------- a session about to leave repair
\* Repair mode entered on a FLUX_COMPARISON block at N = 1 and two repair turns
\* answered correctly; then the settings saved with practice locked on
\* FLUX_CAUSAL and INITIALIZE: the third repair turn is on screen and is the
\* only item of the rolling history
RepairLastState ==
  /\ config = GameConfig(1, 10, TRUE, "FLUX_CAUSAL")
  /\ realElo = DefaultElo - 15
  /\ activeElo = DefaultElo - 15
  /\ consecutiveFailures = 3
  /\ isRepairMode = TRUE
  /\ repairSuccesses = 2
  /\ repairTargetType = "FLUX_COMPARISON"
  /\ repairTargetResult = "LESSER"
  /\ phase = "WARMUP"
  /\ history = <<RepairEntryItem("GREATER")>>
  /\ logs = << >>
  /\ currentItem = RepairEntryItem("GREATER")
  /\ turnCount = 1
  /\ timer = 1150
  /\ blockState = [type |-> "FLUX_COMPARISON", remaining |-> 2]
  /\ frameQueue = <<"FLUX_OPPOSITION", "FLUX_HIERARCHY", "FLUX_CAUSAL", "FLUX_SPATIAL",
                    "FLUX_DEICTIC", "FLUX_CONDITIONAL", "FLUX_ANALOGY", "FLUX_FEATURE">>
  /\ switches = <<"FLUX_COMPARISON">>
  /\ lastTurn = [isBlockSwitch |-> FALSE, prevResult |-> Null, prevBy |-> Null,
                 makeMatch |-> FALSE, shouldMatch |-> FALSE]
  /\ produced = <<[by |-> "repair", type |-> "FLUX_COMPARISON"]>>

InitExit ==
  /\ RepairLastState
  /\ turns = 0
  /\ gen = [pc |-> "idle"]

SpecExit == InitExit /\ [][Next]_vars

\* C36: on a turn judged in normal mode where neither the current stimulus nor
\* its N-back target was generated at tier 3, the generator was passed the
\* target's result and the declared match equals the forceMatch flag sampled
\* for that turn
C36_MatchIsForceMatch ==
  [][(Scored /\ ~isRepairMode /\ ~logs'[1].isRepair
        /\ logs'[1].currentItem.stimulus.tier < 3
        /\ logs'[1].nBackItem.stimulus.tier < 3) =>
       /\ lastTurn.prevResult = logs'[1].nBackItem.result
       /\ logs'[1].isMatch <=> lastTurn.shouldMatch]_vars

\* the bag holds no family twice, at most 8 families, and not the family of
\* the scheduler's active block
BagInvariant ==
  /\ \A i, j \in DOMAIN frameQueue : frameQueue[i] = frameQueue[j] => i = j
  /\ Len(frameQueue) <= Len(allTypes) - 1
  /\ Range(frameQueue) \subseteq Range(allTypes)
  /\ ~Includes(frameQueue, blockState.type)

\* C37: in every reachable state the bag contains no duplicate family, holds
\* at most 8 families after any draw and never contains the family of the
\* scheduler's active block; the bag changes only when a block has ended, by
\* the draw of its top card, and it is refilled (with all the families, of
\* which the top one is drawn at once) only when it is empty
C37_BagInvariant ==
  /\ []BagInvariant
  /\ [][frameQueue' # frameQueue =>
          /\ blockState.remaining <= 0
          /\ Len(switches') = Len(switches) + 1
          /\ blockState'.type = switches'[Len(switches')]
          /\ IF frameQueue # << >>
             THEN /\ frameQueue' = Tail(frameQueue)
                  /\ blockState'.type = frameQueue[1]
             ELSE /\ Len(frameQueue') = Len(allTypes) - 1
                  /\ Range(frameQueue') \cup {blockState'.type} = Range(allTypes)]_vars

\* the bag has been refilled a second time: ten blocks drawn, eight cards left
C37_Witness ==
  /\ Len(switches) = Len(allTypes) + 1
  /\ Len(frameQueue) = Len(allTypes) - 1
  /\ blockState.type = switches[Len(switches)]

\* C38: a step that enters IDLE (save-settings, the rating reset) leaves the
\* repair flag, the locked repair family, the repair streak, the failure
\* counter, the bag and the active block unchanged, and so does INITIALIZE,
\* whose first turn is scheduled from them: a repair turn of the locked family
\* if repair was active, else (no practice lock) the next turn of the block
\* that was running, or a new block if that block had no turn left
C38_ResetKeepsRepairAndScheduler ==
  [][/\ phase' = "IDLE" =>
          UNCHANGED <<isRepairMode, repairTargetType, repairSuccesses, consecutiveFailures,
                      frameQueue, blockState>>
     /\ (phase = "IDLE" /\ phase' # "IDLE") =>
          /\ UNCHANGED <<isRepairMode, repairTargetType, repairSuccesses,
                         consecutiveFailures>>
          /\ turnCount' = 1
          /\ history' = <<currentItem'>>
          /\ logs' = << >>
          /\ IF isRepairMode /\ repairTargetType # Null
             THEN /\ currentItem'.stimulus.type = repairTargetType
                  /\ UNCHANGED <<frameQueue, blockState>>
             ELSE IF /\ config.isPracticeMode
                     /\ config.practiceType \notin {Null, "MIXED"}
             THEN UNCHANGED <<frameQueue, blockState>>
             ELSE IF blockState.remaining > 0
             THEN /\ currentItem'.stimulus.type = blockState.type
                  /\ blockState' = [blockState EXCEPT !.remaining = blockState.remaining - 1]
                  /\ UNCHANGED frameQueue
             ELSE Len(switches') = Len(switches) + 1]_vars

\* a session started by INITIALIZE while repair was active, after the settings
\* were saved: its first turn is a repair turn and the block is as it was left
C38_Witness ==
  /\ isRepairMode
  /\ repairTargetType = "FLUX_COMPARISON"
  /\ consecutiveFailures = 3
  /\ config # DefaultConfig
  /\ turnCount = 1
  /\ logs = << >>
  /\ history = <<currentItem>>
  /\ currentItem.stimulus.type = "FLUX_COMPARISON"
  /\ produced = <<[by |-> "repair", type |-> "FLUX_COMPARISON"]>>
  /\ blockState = [type |-> "FLUX_COMPARISON", remaining |-> 2]

\* C39: the first block the scheduler draws after construction is never
\* FLUX_FEATURE (the initial active family, which the anti-repeat check moves
\* off the top of the first bag); FLUX_FEATURE stays in the first bag and is
\* the family of one of the blocks 2..9
C39_FirstBlockNotFeature ==
  LET first == allTypes[1]
      cycle == Len(allTypes)
  IN /\ switches = << >> => blockState = [type |-> first, remaining |-> 0] /\ frameQueue = << >>
     /\ switches # << >> => switches[1] # first
     /\ (switches # << >> /\ Len(switches) <= cycle) =>
          (Includes(frameQueue, first) <=> ~Includes(switches, first))
     /\ Len(switches) >= cycle => \E i \in 2..cycle : switches[i] = first

\* the first bag came out of the shuffle with FLUX_FEATURE on top: the card
\* was moved to the bottom and is the ninth block
C39_Witness ==
  /\ Len(switches) = Len(allTypes)
  /\ switches[1] = "FLUX_COMPARISON"
  /\ switches[Len(allTypes)] = "FLUX_FEATURE"
  /\ frameQueue = << >>

\* ------------------------- specification of the loops inside one generator call
\* One call of a generator, loop iteration by loop iteration: the calls of
\* generateCode (draw a syllable, redraw while it is in used), then the
\* search of the family (a trial per iteration), then the return.  gen holds
\* the position in the call: pc, the family and tier, the target result and
\* node colours the search reads, the codes allocated so far (used), the
\* syllable just drawn (code), the trials made (attempts) and whether the
\* last one hit the target (found)
CodesNeeded(type, tier) ==
  IF type = "FLUX_FEATURE" THEN 3
  ELSE IF type = "FLUX_CAUSAL" THEN (IF tier >= 3 THEN 4 ELSE IF tier = 2 THEN 3 ELSE 2)
  ELSE IF type = "FLUX_SPATIAL" THEN 4
  ELSE IF type = "FLUX_DEICTIC" THEN 2
  ELSE IF type = "FLUX_CONDITIONAL" THEN 2
  ELSE IF type = "FLUX_ANALOGY" THEN 4
  ELSE 0

\* for(let i=0; i<50; i++) of Causal tiers 2 and 3, attempts < 200 of Spatial
\* tiers 2 and 3; the other generators have no search
SearchLimit(type, tier) ==
  IF type = "FLUX_CAUSAL" /\ tier >= 2 THEN CausalTrials
  ELSE IF type = "FLUX_SPATIAL" /\ tier # 1 THEN SpatialAttempts
  ELSE 0

\* the targets a search can be given
SearchTargets(type, tier) ==
  IF type = "FLUX_CAUSAL"
  THEN getRandomItem(IF tier >= 3 THEN relationsViral ELSE relationsSimple)
  ELSE IF type = "FLUX_SPATIAL"
  THEN getRandomItem(IF tier = 3 THEN relationsRotation ELSE relationsQuadrant)
  ELSE {Null}

SearchOpenAlways(attempts, limit) == TRUE

\* the loop condition of a search: i < 50, attempts < 200
SearchOpen(attempts, limit) == attempts < limit

\* one trial: whether the random operators (Causal) or the random 3-step
\* sequence (Spatial) drawn in it yield the target
TrialHits(g) ==
  LET c == g.used
  IN IF g.type = "FLUX_CAUSAL" /\ g.tier >= 3
     THEN {CausalViralOutcome(t1, t2, g.colors, <<c[1], c[2]>>) = g.result
             : t1 \in getRandomItem(c), t2 \in getRandomItem(c)}
     ELSE IF g.type = "FLUX_CAUSAL"
     THEN {CausalGateOutcome(t1, t2, g.colors, c[1], c[2], c[3]) = g.result
             : t1 \in getRandomItem(c), t2 \in getRandomItem(c)}
     ELSE {SpatialOutcome(TurtleRun(<<a, b, d>>, 3, c[1], c[2], c[3], c[4]), g.tier) = g.result
             : a \in getRandomItem(c), b \in getRandomItem(c), d \in getRandomItem(c)}

InitLoops ==
  /\ SessionInit
  /\ realElo = DefaultElo
  /\ \E type \in Range(allTypes), tier \in 1..3 :
       \E result \in SearchTargets(type, tier),
          colors \in IF type = "FLUX_CAUSAL" THEN ColorTriples ELSE {<< >>},
          code \in IF CodesNeeded(type, tier) > 0 THEN getRandomItem(Syllables) ELSE {Null} :
         gen = [pc |-> IF CodesNeeded(type, tier) > 0 THEN "alloc" ELSE "search",
                type |-> type, tier |-> tier, result |-> result, colors |-> colors,
                used |-> << >>, code |-> code, attempts |-> 0, found |-> FALSE]

\* while (used.includes(code)) code = getRandomItem(NONSENSE_SYLLABLES)
Redraw ==
  /\ gen.pc = "alloc"
  /\ Includes(gen.used, gen.code)
  /\ \E c \in getRandomItem(Syllables) : gen' = [gen EXCEPT !.code = c]
  /\ UNCHANGED sessionVars

\* a redraw that comes up with a syllable outside used
RedrawFresh == Redraw /\ ~Includes(gen.used, gen'.code)

\* the search tells the codes apart and nothing more: once they are all
\* allocated a code is named by its position in the list
Positions(used) == [i \in DOMAIN used |-> i]

\* return code: the code joins the list passed to the next call of
\* generateCode, whose first draw is made; after the last call the search starts
Allocated ==
  /\ gen.pc = "alloc"
  /\ ~Includes(gen.used, gen.code)
  /\ LET used == Append(gen.used, gen.code)
     IN IF Len(used) < CodesNeeded(gen.type, gen.tier)
        THEN \E c \in getRandomItem(Syllables) : gen' = [gen EXCEPT !.used = used, !.code = c]
        ELSE gen' = [gen EXCEPT !.used = Positions(used), !.code = Null, !.pc = "search"]
  /\ UNCHANGED sessionVars

\* one iteration of the search loop
Trial ==
  /\ gen.pc = "search"
  /\ SearchLimit(gen.type, gen.tier) > 0
  /\ ~gen.found
  /\ SearchOpen(gen.attempts, SearchLimit(gen.type, gen.tier))
  /\ \E hit \in TrialHits(gen) :
       gen' = [gen EXCEPT !.attempts = gen.attempts + 1, !.found = hit]
  /\ UNCHANGED sessionVars

\* the loop is left, by break or by exhaustion (then the fallback is
\* substituted), and the generator returns
Return ==
  /\ gen.pc = "search"
  /\ \/ SearchLimit(gen.type, gen.tier) = 0
     \/ gen.found
     \/ ~SearchOpen(gen.attempts, SearchLimit(gen.type, gen.tier))
  /\ gen' = [gen EXCEPT !.pc = "done"]
  /\ UNCHANGED sessionVars

NextLoops ==
  \/ Redraw
  \/ Allocated
  \/ Trial
  \/ Return

\* the call keeps running, and the random draw does not avoid the syllables
\* outside used for ever
SpecLoops ==
  InitLoops /\ [][NextLoops]_vars /\ WF_vars(NextLoops) /\ WF_vars(RedrawFresh)

\* C40: every generator call terminates: a search makes at most 50 (Causal) or
\* 200 (Spatial) trials, one at a time, and on exhaustion returns with the
\* fallback without starting over; the allocation loop always has a syllable
\* outside used to draw (used holds at most 3) and, under fair random choice,
\* ends; so the call reaches its return
C40_GeneratorTerminates ==
  /\ [](/\ gen.attempts <= SearchLimit(gen.type, gen.tier)
        /\ SearchLimit(gen.type, gen.tier) <= SpatialAttempts
        /\ gen.pc = "alloc" =>
             /\ Len(gen.used) <= 3
             /\ \E c \in getRandomItem(Syllables) : ~Includes(gen.used, c))
  /\ [][/\ gen'.attempts \in {gen.attempts, gen.attempts + 1}
        /\ gen.pc = "search" => gen'.pc \in {"search", "done"}
        /\ gen.pc # "done"]_vars
  /\ <>(gen.pc = "done")

\* a Spatial search that missed 200 times and returned with the fallback
C40_Witness ==
  /\ gen.pc = "done"
  /\ gen.type = "FLUX_SPATIAL"
  /\ gen.attempts = SpatialAttempts
  /\ ~gen.found

====
